---- MODULE Spec2Model ----
(***************************************************************************)
(* SLRfield: CPF ephemeris interpolation (cpf_utils/cpf_interpolate.py)    *)
(* and pass detection (query_utils/visible_pass.py).                       *)
(*                                                                         *)
(* Time is counted in ticks of 1/Res second.  An instant of the UTC scale  *)
(* (astropy Time) is the number of ticks elapsed since 00:00:00 of day 0;  *)
(* the calendar has at most one day of 86401 seconds, the day leapDay      *)
(* (leapDay = -1: no leap second).  Quasi-MJD values are kept as integers  *)
(* in units of 1/(2*Res*86400) day, so that a half-integer median MJD and  *)
(* the division by 86400 stay exact.                                       *)
(***************************************************************************)
EXTENDS Integers, Sequences, FiniteSets, TLC

VARIABLES table,    \* the parsed CPF table: sequence of samples
          leapDay,  \* the day that holds the inserted leap second, or -1
          sky,      \* the satellite seen from the station: altitude profile, period
          sun,      \* the solar altitude at the station, as a function of time
          info,     \* CPFdata.info: the parsed CPF files a CPFdata object holds
          disk,     \* the files: CPF files, the TLE file, the reports written
          call,     \* the call in progress: its name and its arguments
          out       \* what the call produced

vars == <<table, leapDay, sky, sun, info, disk, call, out>>

----------------------------------------------------------------------------
(* Bounds of the model *)

Res == 2
NSamples == 12
MaxTau == 1

(* 86400: seconds of a day, cpf_interpolate.py line 85 *)
DaySec == 86400

----------------------------------------------------------------------------
(* Arithmetic helpers *)

Min(a, b) == IF a < b THEN a ELSE b
Max(a, b) == IF a > b THEN a ELSE b

(* numpy index k (0-based) of a sequence *)
At(s, k) == s[k + 1]

----------------------------------------------------------------------------
(* The UTC calendar, as astropy's Time keeps it *)

DayTicks == DaySec * Res

(* first instant of day d *)
DayStart(d, L) == d * DayTicks + (IF L >= 0 /\ d > L THEN Res ELSE 0)

(* Time.mjd.astype(int): the day an instant belongs to; the leap second *)
(* 23:59:60 belongs to the day it ends.                                 *)
MjdOf(t, L) ==
    LET d0 == t \div DayTicks
    IN  IF t >= DayStart(d0, L) THEN d0 ELSE d0 - 1

(* Time.iso: date and HH:MM:SS.sss of an instant (ticks are whole *)
(* multiples of a millisecond, so the 3 decimals lose nothing)    *)
TimeIso(t, L) ==
    LET d == MjdOf(t, L)
        s == t - DayStart(d, L)
    IN  IF s >= DayTicks
        THEN [date |-> d, hh |-> 23, mm |-> 59, ss |-> 60 * Res + (s - DayTicks)]
        ELSE [date |-> d,
              hh |-> s \div (3600 * Res),
              mm |-> (s % (3600 * Res)) \div (60 * Res),
              ss |-> s % (60 * Res)]

(* iso2sod: second of day parsed back from the iso text, in ticks *)
iso2sod(iso) == iso.hh * 3600 * Res + iso.mm * 60 * Res + iso.ss

(* read_cpf: ts_utc = Time(MJD, format='mjd') + TimeDelta(SoD) *)
SampleUtc(s, L) == DayStart(s.mjd, L) + s.sod

----------------------------------------------------------------------------
(* CPF tables the program is given *)

(* the position of sample i, in meters in the ITRF: a track that passes    *)
(* from the north-west to the north-east of the stations of the calls,     *)
(* due north of them at sample 6                                           *)
Pos(i) ==
    LET e == i - 6
        n == IF e = 0 THEN 1 ELSE IF e < 0 THEN 0 - e ELSE e
    IN  <<0 - n, e, n>>

LeapFlag(mjd, L) == IF L >= 0 /\ mjd > L THEN 1 ELSE 0

(* samples evenly spaced in elapsed time, the leap second 23:59:60 included *)
ElapsedTable(start, step, L) ==
    [i \in 1..NSamples |->
        LET t == start + (i - 1) * step
        IN  [mjd  |-> MjdOf(t, L),
             sod  |-> t - DayStart(MjdOf(t, L), L),
             leap |-> LeapFlag(MjdOf(t, L), L),
             pos  |-> Pos(i)]]

(* samples evenly spaced in (MJD, SoD), as a multi-day CPF file is tabulated; *)
(* flagAll: every record carries the flag (file produced after the leap)     *)
NominalTable(startSec, stepSec, L, flagAll) ==
    [i \in 1..NSamples |->
        LET s == startSec + (i - 1) * stepSec
        IN  [mjd  |-> s \div DaySec,
             sod  |-> (s % DaySec) * Res,
             leap |-> IF flagAll THEN 1 ELSE LeapFlag(s \div DaySec, L),
             pos  |-> Pos(i)]]

(* the days on which the modelled calendar may insert its leap second *)
LeapDays == {1, 2}

(* Midnight(L): the midnight the tables straddle, the end of the leap day *)
(* when there is one                                                      *)
Midnight(L) == IF L >= 0 THEN L + 1 ELSE 2

Tables ==
    {[tbl |-> ElapsedTable(DayStart(Midnight(L), L) - k * Res, Res, L), L |-> L] :
        k \in {3, 6, 9}, L \in LeapDays \cup {-1}}
    \cup {[tbl |-> ElapsedTable(DayStart(Midnight(L), L) - 28 * Res, 5 * Res, L), L |-> L] :
        L \in {1, -1}}
    \cup {[tbl |-> NominalTable(DaySec + first, 28800, L, FALSE), L |-> L] :
        first \in {0, 57600}, L \in {1, -1}}
    \cup {[tbl |-> NominalTable(2 * DaySec + 600, 300, 1, TRUE), L |-> 1]}

----------------------------------------------------------------------------
(* numpy / scipy primitives used by the interpolation *)

(* a[lo:hi] on an array of length n: the 0-based indices the slice holds; *)
(* a negative bound counts from the end, bounds are clamped, and a start  *)
(* at or after the stop gives the empty slice                             *)
PySlice(lo, hi, n) ==
    LET s == IF lo < 0 THEN Max(lo + n, 0) ELSE Min(lo, n)
        e == IF hi < 0 THEN Max(hi + n, 0) ELSE Min(hi, n)
    IN  {k \in 0..(n - 1) : s <= k /\ k < e}

(* the k-th smallest (0-based) entry of a, as a sort would place it *)
KthSmallest(a, k) ==
    CHOOSE v \in {a[i] : i \in DOMAIN a} :
        /\ Cardinality({i \in DOMAIN a : a[i] < v}) <= k
        /\ k < Cardinality({i \in DOMAIN a : a[i] <= v})

(* 2 * np.median(a) *)
Median2(a) ==
    LET n == Len(a)
    IN  IF n % 2 = 1
        THEN 2 * KthSmallest(a, (n - 1) \div 2)
        ELSE KthSmallest(a, n \div 2 - 1) + KthSmallest(a, n \div 2)

(* np.around of a span of x ticks, in whole seconds (ties to even) *)
Around(x) ==
    LET q == x \div Res
        r == x % Res
    IN  IF 2 * r < Res THEN q
        ELSE IF 2 * r > Res THEN q + 1
        ELSE IF q % 2 = 0 THEN q ELSE q + 1

(* len(np.arange(0, dt, inc)) *)
ArangeLen(dt, inc) == IF dt <= 0 THEN 0 ELSE (dt + inc - 1) \div inc

(* A position handed back by the interpolation: val is its value when the *)
(* value is a stored sample's position (<<>> otherwise), poly the stencil  *)
(* a polynomial was fitted on ({}: none was fitted), at the query.         *)
(* BarycentricInterpolator(xi, yi)(x) on the stencil S of source indices:  *)
(* at a node scipy returns the node's yi itself; elsewhere the value of    *)
(* the polynomial through the stencil, kept symbolic.                      *)
Barycentric(S, src, pos, x) ==
    IF \E k \in S : At(src, k) = x
    THEN [val |-> At(pos, CHOOSE k \in S : At(src, k) = x), poly |-> S, at |-> x]
    ELSE [val |-> <<>>, poly |-> S, at |-> x]

----------------------------------------------------------------------------
(* interp_ephem(ts_quasi_mjd, ts_quasi_mjd_cpf, positions_cpf)             *)
(* The result: err ("none", or the exception raised), the positions        *)
(* returned, and in used, for every query that found its source interval,  *)
(* the bracket index b, the slice b-4:b+6 as numpy cuts it, and whether    *)
(* the exact-match shortcut answered it.                                   *)

Stencil(b, n) == PySlice(b - 4, b + 6, n)

Flags(i, q, src) ==
    {j \in 1..Len(q) : q[j] >= At(src, i) /\ q[j] < At(src, i + 1)}

(* the queries of Flags(i), in array order *)
RECURSIVE Masked(_, _, _)
Masked(q, F, j) ==
    IF j > Len(q) THEN <<>>
    ELSE (IF j \in F THEN <<q[j]>> ELSE <<>>) \o Masked(q, F, j + 1)

(* the branch m > n, from source interval i on *)
RECURSIVE ManyFrom(_, _, _, _)
ManyFrom(i, q, src, pos) ==
    LET n == Len(src)
        F == Flags(i, q, src)
        S == Stencil(i, n)
        xs == Masked(q, F, 1)
    IN  IF i > n - 2 THEN [err |-> "none", positions |-> <<>>, used |-> <<>>]
        ELSE IF F = {} THEN ManyFrom(i + 1, q, src, pos)
        ELSE IF S = {}
        THEN [err |-> "ValueError", positions |-> <<>>,
              used |-> [k \in 1..Len(xs) |->
                          [q |-> xs[k], b |-> i, stencil |-> S, shortcut |-> FALSE]]]
        ELSE LET rest == ManyFrom(i + 1, q, src, pos)
             IN  [err |-> rest.err,
                  positions |-> IF rest.err = "none"
                                THEN [k \in 1..Len(xs) |-> Barycentric(S, src, pos, xs[k])]
                                     \o rest.positions
                                ELSE <<>>,
                  used |-> [k \in 1..Len(xs) |->
                          [q |-> xs[k], b |-> i, stencil |-> S, shortcut |-> FALSE]]
                           \o rest.used]

(* np.diff(x >= ts_quasi_mjd_cpf).nonzero()[0] *)
DiffNonzero(x, src) ==
    {i \in 0..(Len(src) - 2) : (x >= At(src, i)) # (x >= At(src, i + 1))}

SetMin(S) == CHOOSE x \in S : \A y \in S : x <= y

(* the branch m <= n, from query j on *)
RECURSIVE FewFrom(_, _, _, _)
FewFrom(j, q, src, pos) ==
    LET n == Len(src)
        D == DiffNonzero(q[j], src)
        boundary == SetMin(D)
        S == Stencil(boundary, n)
        exact == \E k \in 0..(n - 1) : At(src, k) = q[j]
        here == [q |-> q[j], b |-> boundary, stencil |-> S, shortcut |-> exact]
    IN  IF j > Len(q) THEN [err |-> "none", positions |-> <<>>, used |-> <<>>]
        ELSE IF D = {} THEN [err |-> "IndexError", positions |-> <<>>, used |-> <<>>]
        ELSE IF ~exact /\ S = {}
        THEN [err |-> "ValueError", positions |-> <<>>, used |-> <<here>>]
        ELSE LET rest == FewFrom(j + 1, q, src, pos)
             IN  [err |-> rest.err,
                  positions |-> IF rest.err = "none"
                                THEN <<IF exact
                                       THEN [val |-> At(pos, boundary), poly |-> {},
                                             at |-> q[j]]
                                       ELSE Barycentric(S, src, pos, q[j])>>
                                     \o rest.positions
                                ELSE <<>>,
                  used |-> <<here>> \o rest.used]

(* np.concatenate of an empty list raises ValueError *)
interp_ephem(q, src, pos) ==
    IF Len(q) > Len(src)
    THEN LET r == ManyFrom(0, q, src, pos)
         IN  IF r.err = "none" /\ r.positions = <<>>
             THEN [r EXCEPT !.err = "ValueError"]
             ELSE r
    ELSE FewFrom(1, q, src, pos)

----------------------------------------------------------------------------
(* cpf_interpolate *)

(* the range check with both comparisons made strict-inside *)
OutOfRangeStrict(tbl, L, t_start, t_end) ==
    LET n == Len(tbl)
    IN  \/ t_start <= SampleUtc(At(tbl, 4), L)
        \/ t_end >= SampleUtc(At(tbl, n - 5), L)

(* lines 55-59: the range check on t_start, t_end against ts_utc_cpf[4] *)
(* and ts_utc_cpf[-5]                                                    *)
OutOfRange(tbl, L, t_start, t_end) ==
    LET n == Len(tbl)
        t_start_interp == SampleUtc(At(tbl, 4), L)
        t_end_interp == SampleUtc(At(tbl, n - 5), L)
    IN  t_start < t_start_interp \/ t_end > t_end_interp

(* lines 61-62: ts = t_start + TimeDelta(np.arange(0, dt, t_increment)) *)
OutputGrid(t_start, t_end, inc) ==
    LET dt == Around(t_end - t_start) * Res
    IN  [k \in 1..ArangeLen(dt, inc) |-> t_start + (k - 1) * inc]

(* lines 67, 73-83: the leap second of every output instant *)
LeapSeconds(ts_mjd, mjd_cpf, leap_cpf) ==
    LET n == Len(leap_cpf)
        zeros == [k \in DOMAIN ts_mjd |-> 0]
        steps == {i \in 0..(n - 2) : At(leap_cpf, i + 1) # At(leap_cpf, i)}
        leap_second_boundary == SetMin(steps) + 1
        value == At(leap_cpf, leap_second_boundary)
        mjd_cpf_boundary == At(mjd_cpf, leap_second_boundary)
        condition == {k \in DOMAIN ts_mjd : ts_mjd[k] = mjd_cpf_boundary}
        leap_index == SetMin(condition)
    IN  IF \A i \in DOMAIN leap_cpf : leap_cpf[i] = 0
        THEN [err |-> "none", leap |-> zeros]
        ELSE IF steps = {}
        THEN [err |-> "IndexError", leap |-> zeros]
        ELSE IF condition = {}
        THEN [err |-> "none", leap |-> zeros]
        ELSE [err |-> "none",
              leap |-> [k \in DOMAIN ts_mjd |-> IF k >= leap_index THEN value ELSE 0]]

(* the quasi-time with the leap second left out *)
QuasiMjdNoLeap(mjd, sod, leap, tau, med2) ==
    (2 * mjd - med2) * DayTicks + 2 * (sod + tau)

(* the quasi-time with the leap second counted as a whole day fraction *)
QuasiMjdLeapDay(mjd, sod, leap, tau, med2) ==
    (2 * (mjd + leap) - med2) * DayTicks + 2 * (sod + tau)

(* lines 85-86, 98-99: mjd - median + (sod + leap_second + tau)/86400, in *)
(* units of 1/(2*Res*86400) day; med2 is twice the median MJD            *)
QuasiMjd(mjd, sod, leap, tau, med2) ==
    (2 * mjd - med2) * DayTicks + 2 * (sod + leap * Res + tau)

(* one second (1/86400 day) in quasi-MJD units *)
QuasiSecond == 2 * Res

MjdCpf(tbl) == [i \in DOMAIN tbl |-> tbl[i].mjd]
LeapCpf(tbl) == [i \in DOMAIN tbl |-> tbl[i].leap]
PositionsCpf(tbl) == [i \in DOMAIN tbl |-> tbl[i].pos]

(* line 86 *)
QuasiMjdCpf(tbl) ==
    [i \in DOMAIN tbl |->
        QuasiMjd(tbl[i].mjd, tbl[i].sod, tbl[i].leap, 0, Median2(MjdCpf(tbl)))]

NoCall == [err |-> "skipped", positions |-> <<>>, used |-> <<>>]

(* lines 175-180: the site of the station.  EarthLocation.from_geodetic    *)
(* takes (lon, lat, height) and raises ValueError for a latitude outside   *)
(* -90 .. 90 degrees; with any other coord_type no branch assigns site and *)
(* line 183 raises UnboundLocalError                                       *)
EarthLocation(station, coord_type) ==
    IF coord_type = "geocentric"
    THEN [err |-> "none",
          site |-> [frame |-> "geocentric",
                    x |-> station[1], y |-> station[2], z |-> station[3]]]
    ELSE IF coord_type = "geodetic" /\ (station[1] < -90 \/ station[1] > 90)
    THEN [err |-> "ValueError", site |-> [frame |-> "none"]]
    ELSE IF coord_type = "geodetic"
    THEN [err |-> "none",
          site |-> [frame |-> "geodetic",
                    lon |-> station[2], lat |-> station[1], height |-> station[3]]]
    ELSE [err |-> "UnboundLocalError", site |-> [frame |-> "none"]]

(* lines 182-185: azimuth, altitude and range of every position as seen    *)
(* from the site at the nominal instant ts; the values are kept as the     *)
(* terms they are computed from, the quasi-times of the call are not used  *)
itrs2horizon(station, ts, positions, coord_type) ==
    LET Seen(of, site, k) ==
            [of |-> of, site |-> site, obstime |-> ts[k], position |-> positions[k]]
        From(loc) ==
            [err |-> loc.err,
             hor |-> IF loc.err # "none" THEN <<>>
                     ELSE [k \in DOMAIN positions |->
                              [az |-> Seen("az", loc.site, k),
                               alt |-> Seen("alt", loc.site, k),
                               r |-> Seen("r", loc.site, k)]]]
    IN  From(EarthLocation(station, coord_type))

(* cosine and sine of a multiple of 90 degrees *)
Cos90(d) == CASE d % 360 = 0 -> 1 [] d % 360 = 90 -> 0 [] d % 360 = 180 -> -1
              [] d % 360 = 270 -> 0

Sin90(d) == Cos90(d - 90)

(* longitude and latitude of a site, in degrees: those given to            *)
(* from_geodetic, or those of a geocentric site on one of the axes         *)
LonLat(site) ==
    CASE site.frame = "geodetic" -> [lon |-> site.lon, lat |-> site.lat]
      [] site.frame = "geocentric" /\ site.x > 0 /\ site.y = 0 /\ site.z = 0 ->
             [lon |-> 0, lat |-> 0]
      [] site.frame = "geocentric" /\ site.x = 0 /\ site.y > 0 /\ site.z = 0 ->
             [lon |-> 90, lat |-> 0]
      [] site.frame = "geocentric" /\ site.x = 0 /\ site.y = 0 /\ site.z > 0 ->
             [lon |-> 0, lat |-> 90]

Dot(u, v) == u[1] * v[1] + u[2] * v[2] + u[3] * v[3]

(* the unit vectors to the east and to the north at a site whose longitude *)
(* and latitude are multiples of 90 degrees; the site itself is along the  *)
(* vertical, so the east and north components of a position are those of   *)
(* the vector from the site to it                                          *)
East(site) == <<0 - Sin90(LonLat(site).lon), Cos90(LonLat(site).lon), 0>>

North(site) ==
    <<0 - Sin90(LonLat(site).lat) * Cos90(LonLat(site).lon),
      0 - Sin90(LonLat(site).lat) * Sin90(LonLat(site).lon),
      Cos90(LonLat(site).lat)>>

(* the angle of (east, north) from the north through the east, in degrees  *)
(* within [0, 360) as astropy wraps an azimuth, for the eight directions   *)
(* of the compass                                                          *)
Atan2Deg(e, n) ==
    CASE e = 0 /\ n >= 0 -> 0
      [] e > 0 /\ n = e -> 45
      [] e > 0 /\ n = 0 -> 90
      [] e > 0 /\ n = 0 - e -> 135
      [] e = 0 /\ n < 0 -> 180
      [] e < 0 /\ n = e -> 225
      [] e < 0 /\ n = 0 -> 270
      [] e < 0 /\ n = 0 - e -> 315

(* line 185, horizon.az.deg: the number an azimuth term stands for when    *)
(* its position is a stored sample                                         *)
az_deg(term) ==
    Atan2Deg(Dot(East(term.site), term.position.val),
             Dot(North(term.site), term.position.val))

(* line 105: the number az_recei - az_trans, for a difference of azimuths *)
DeltaDeg(d) == az_deg(d.a) - az_deg(d.b)

(* a - b of two floats: zero when they are the same value *)
Minus(a, b) == [op |-> "minus", zero |-> a = b, a |-> a, b |-> b]

(* r/speed_of_light *)
OneWay(r) == [op |-> "1/c", r |-> r]

(* lines 92, 104: 2*r/speed_of_light *)
TwoWay(r) == [op |-> "2/c", r |-> r]

(* lines 105-106 with the operands exchanged *)
DeltaSwapped(recei, trans) == Minus(trans, recei)

(* lines 105-106: az_recei - az_trans, alt_recei - alt_trans *)
Delta(recei, trans) == Minus(recei, trans)

(* lines 92-93 with the one-way light time as the time of flight *)
GeometricOneWay(hor) ==
    [k \in DOMAIN hor |->
        [az |-> hor[k].az, alt |-> hor[k].alt, r |-> hor[k].r, tof |-> OneWay(hor[k].r)]]

(* lines 92-93: the columns returned in geometric mode *)
Geometric(hor) ==
    [k \in DOMAIN hor |->
        [az |-> hor[k].az, alt |-> hor[k].alt, r |-> hor[k].r, tof |-> TwoWay(hor[k].r)]]

(* lines 104-108: the columns returned in apparent mode *)
Apparent(hor_trans, hor_recei) ==
    [k \in DOMAIN hor_trans |->
        [az |-> hor_trans[k].az, alt |-> hor_trans[k].alt,
         delta_az |-> Delta(hor_recei[k].az, hor_trans[k].az),
         delta_alt |-> Delta(hor_recei[k].alt, hor_trans[k].alt),
         r |-> hor_trans[k].r, tof |-> TwoWay(hor_trans[k].r)]]

(* The whole function.  req: t_start, t_end (instants), inc (ticks), mode, *)
(* station, coord_type,                                                    *)
(* tau (ticks): the light time r/c that itrs2horizon's range gives at the  *)
(* output instants.  status is "ok" when the function returns, else the    *)
(* exception; nominal, trans, recei are the three interp_ephem calls,      *)
(* returned the columns az .. tof of the tuple returned.                   *)
cpf_interpolate(tbl, L, req) ==
    LET ts == OutputGrid(req.t_start, req.t_end, req.inc)
        ts_mjd == [k \in DOMAIN ts |-> MjdOf(ts[k], L)]
        ts_sod == [k \in DOMAIN ts |-> iso2sod(TimeIso(ts[k], L))]
        med2 == Median2(MjdCpf(tbl))
        ls == LeapSeconds(ts_mjd, MjdCpf(tbl), LeapCpf(tbl))
        quasi_cpf == QuasiMjdCpf(tbl)
        quasi == [k \in DOMAIN ts |-> QuasiMjd(ts_mjd[k], ts_sod[k], ls.leap[k], 0, med2)]
        quasi_trans ==
            [k \in DOMAIN ts |-> QuasiMjd(ts_mjd[k], ts_sod[k], ls.leap[k], req.tau, med2)]
        quasi_recei ==
            [k \in DOMAIN ts |-> QuasiMjd(ts_mjd[k], ts_sod[k], ls.leap[k], 0 - req.tau, med2)]
        nominal == interp_ephem(quasi, quasi_cpf, PositionsCpf(tbl))
        trans == interp_ephem(quasi_trans, quasi_cpf, PositionsCpf(tbl))
        recei == interp_ephem(quasi_recei, quasi_cpf, PositionsCpf(tbl))
        base == [status |-> "ok", ts |-> ts, ts_mjd |-> ts_mjd, ts_sod |-> ts_sod,
                 leap_second |-> ls.leap, quasi |-> quasi, quasi_cpf |-> quasi_cpf,
                 nominal |-> nominal, trans |-> NoCall, recei |-> NoCall,
                 returned |-> <<>>]
        none == [status |-> "ValueError", ts |-> <<>>, ts_mjd |-> <<>>, ts_sod |-> <<>>,
                 leap_second |-> <<>>, quasi |-> <<>>, quasi_cpf |-> <<>>,
                 nominal |-> NoCall, trans |-> NoCall, recei |-> NoCall,
                 returned |-> <<>>]
    IN  IF OutOfRange(tbl, L, req.t_start, req.t_end)
        THEN [none EXCEPT !.status = "OutOfRange"]
        ELSE IF ls.err # "none"
        THEN [base EXCEPT !.status = ls.err, !.quasi = <<>>, !.quasi_cpf = <<>>,
                          !.nominal = NoCall]
        ELSE IF nominal.err # "none"
        THEN [base EXCEPT !.status = nominal.err]
        ELSE IF EarthLocation(req.station, req.coord_type).err # "none"
        THEN [base EXCEPT !.status = EarthLocation(req.station, req.coord_type).err]
        ELSE IF req.mode = "geometric"
        THEN [base EXCEPT !.returned =
                  Geometric(itrs2horizon(req.station, ts, nominal.positions,
                                         req.coord_type).hor)]
        ELSE IF req.mode = "apparent"
        THEN IF trans.err # "none"
             THEN [base EXCEPT !.status = trans.err, !.trans = trans]
             ELSE IF recei.err # "none"
             THEN [base EXCEPT !.status = recei.err, !.trans = trans, !.recei = recei]
             ELSE [base EXCEPT !.trans = trans, !.recei = recei,
                               !.returned =
                                   Apparent(itrs2horizon(req.station, ts, trans.positions,
                                                         req.coord_type).hor,
                                            itrs2horizon(req.station, ts, recei.positions,
                                                         req.coord_type).hor)]
        ELSE [base EXCEPT !.status = "ModeError"]

----------------------------------------------------------------------------
(* The calls made on a table *)

Idle == [name |-> "idle"]
Nothing == [status |-> "idle"]

Modes == {"geometric", "apparent", "radar"}

(* the three numbers given as the station *)
Station == <<90, 0, 500>>

(* the stations of the calls: two at longitude, latitude, height, one at   *)
(* x, y, z on the equator                                                  *)
Stations ==
    {[station |-> Station, coord_type |-> "geodetic"],
     [station |-> <<102, 25, 1987>>, coord_type |-> "geodetic"],
     [station |-> <<6378137, 0, 0>>, coord_type |-> "geocentric"]}

(* requests around the two ends of the interpolation range *)
Requests(tbl, L) ==
    LET n == Len(tbl)
        T(i) == SampleUtc(At(tbl, i), L)
        step == T(5) - T(4)
        fine == IF step % 5 = 0 THEN step \div 5 ELSE step \div 2
    IN  {[t_start |-> T(i) + a, t_end |-> T(j) + b, inc |-> inc, mode |-> mode, tau |-> tau,
          station |-> at.station, coord_type |-> at.coord_type] :
            i \in 4..6, j \in (n - 7)..(n - 5), a \in -1..1, b \in -1..1,
            inc \in {step, fine}, mode \in Modes, tau \in 0..MaxTau,
            at \in Stations}

CpfInterpolate ==
    /\ call.name = "idle"
    /\ \E req \in Requests(table, leapDay) :
          /\ req.t_end - req.t_start >= Res
          /\ req.mode # "apparent" => req.tau = 0
          /\ call' = [name |-> "cpf_interpolate", req |-> req]
          /\ out' = cpf_interpolate(table, leapDay, req)
    /\ UNCHANGED <<table, leapDay, sky, sun, info, disk>>

(* interp_ephem called on its own: one query at the quasi-time of a source *)
(* sample s, or more queries than source samples, the first at sample s    *)
InterpEphem ==
    /\ call.name = "idle"
    /\ \E s \in 0..(Len(table) - 1), many \in BOOLEAN :
          LET src == QuasiMjdCpf(table)
              q == IF many
                   THEN [k \in 1..(Len(table) + 1) |-> At(src, s) + (k - 1)]
                   ELSE <<At(src, s)>>
          IN  /\ call' = [name |-> "interp_ephem", q |-> q, s |-> s]
              /\ out' = interp_ephem(q, src, PositionsCpf(table))
    /\ UNCHANGED <<table, leapDay, sky, sun, info, disk>>

Return ==
    /\ call.name # "idle"
    /\ call' = Idle
    /\ out' = Nothing
    /\ UNCHANGED <<table, leapDay, sky, sun, info, disk>>

NoSky == [ivs |-> <<>>, graze |-> FALSE, P10 |-> 0]
NoSun == [at |-> 0, cross |-> 0, rate |-> 0]
NoDisk == [cpf |-> <<>>, tle |-> <<>>, prediction |-> <<>>, pred |-> <<>>]

Init ==
    /\ \E t \in Tables : table = t.tbl /\ leapDay = t.L
    /\ sky = NoSky
    /\ sun = NoSun
    /\ info = <<>>
    /\ disk = NoDisk
    /\ call = Idle
    /\ out = Nothing

Next == CpfInterpolate \/ InterpEphem \/ Return

Spec == Init /\ [][Next]_vars

----------------------------------------------------------------------------
(* Properties of cpf_interpolate and interp_ephem *)

InCpf == call.name = "cpf_interpolate"
InEphem == call.name = "interp_ephem"

(* instant of source sample k (0-based) of the table in the state *)
T(k) == SampleUtc(At(table, k), leapDay)

(* sample k is the leap second 23:59:60 of day d and sample k+1 the first *)
(* second of the next day, flagged                                        *)
StraddlesLeap(k) ==
    /\ At(table, k).sod = DayTicks /\ At(table, k).leap = 0
    /\ At(table, k + 1).mjd = At(table, k).mjd + 1
    /\ At(table, k + 1).sod = 0 /\ At(table, k + 1).leap = 1

HasFlagStep ==
    \E i \in 0..(Len(table) - 2) : At(table, i).leap # At(table, i + 1).leap

InterpCalls == {out.nominal, out.trans, out.recei}

(* C1: every query of an accepted request that reaches interp_ephem is    *)
(* bracketed by a source index b, 4 <= b <= n-6, and its stencil is the   *)
(* ten samples b-4..b+5; no call fails for want of a bracket or a stencil *)
(* (a query answered by the stored position of the sample it coincides    *)
(* with, the sample n-5 at the latest, needs no stencil)                  *)
C1_StencilsInBounds ==
    InCpf /\ out.status # "OutOfRange" =>
        \A c \in InterpCalls :
            /\ c.err \in {"none", "skipped"}
            /\ \A k \in DOMAIN c.used :
                  LET u == c.used[k]
                  IN  /\ 4 <= u.b
                      /\ At(out.quasi_cpf, u.b) <= u.q
                      /\ u.shortcut =>
                            /\ u.b <= Len(table) - 5
                            /\ u.q = At(out.quasi_cpf, u.b)
                      /\ ~u.shortcut =>
                            /\ u.b <= Len(table) - 6
                            /\ u.q < At(out.quasi_cpf, u.b + 1)
                            /\ u.stencil = (u.b - 4)..(u.b + 5)

(* C2 as claimed: a request is rejected unless [t_start, t_end] lies      *)
(* strictly inside (sample 4, sample n-5), and rejected before any        *)
(* interpolation                                                          *)
C2_RejectedUnlessStrictlyInside ==
    InCpf =>
        /\ out.status = "OutOfRange" <=>
              ~(T(4) < call.req.t_start /\ call.req.t_end < T(Len(table) - 5))
        /\ out.status = "OutOfRange" => \A c \in InterpCalls : c.err = "skipped"

(* C2 amended: a request is rejected exactly when t_start is before       *)
(* sample 4 or t_end after sample n-5 (equality is accepted), and a       *)
(* rejected request has made no interpolation call and built no grid      *)
C2_RejectedOutsideClosedRange ==
    InCpf =>
        /\ out.status = "OutOfRange" <=>
              (call.req.t_start < T(4) \/ call.req.t_end > T(Len(table) - 5))
        /\ out.status = "OutOfRange" =>
              /\ \A c \in InterpCalls : c.err = "skipped"
              /\ out.ts = <<>>

(* a request on the closed ends of the range, accepted and answered *)
C2_Witness ==
    /\ InCpf
    /\ call.req.t_start = T(4) /\ call.req.t_end = T(Len(table) - 5)
    /\ out.status = "ok"

(* C3: interp_ephem queried at the quasi-time of source sample s returns  *)
(* the stored position of s, through the shortcut (no polynomial fitted), *)
(* for every s and whether or not there are more queries than samples     *)
C3_ExactAtEverySample ==
    InEphem =>
        /\ out.err = "none"
        /\ Len(out.positions) = Len(call.q)
        /\ out.positions[1].val = At(table, call.s).pos
        /\ out.positions[1].poly = {}

(* C4 as claimed: the quasi-times of (d, 86400, 0) and (d+1, 0, 1) are equal *)
C4_LeapPairEqual ==
    InCpf /\ out.quasi_cpf # <<>> =>
        \A k \in 0..(Len(table) - 2) :
            StraddlesLeap(k) => At(out.quasi_cpf, k) = At(out.quasi_cpf, k + 1)

(* C4 amended: the quasi-time of (d+1, 0, 1) is exactly one second        *)
(* (1/86400 day) later than that of (d, 86400, 0)                         *)
C4_LeapPairOneSecondApart ==
    InCpf /\ out.quasi_cpf # <<>> =>
        \A k \in 0..(Len(table) - 2) :
            StraddlesLeap(k) =>
                At(out.quasi_cpf, k + 1) = At(out.quasi_cpf, k) + QuasiSecond

(* the quasi-times of a table holding the pair have been computed *)
C4_Witness ==
    /\ InCpf /\ out.quasi_cpf # <<>>
    /\ \E k \in 0..(Len(table) - 2) : StraddlesLeap(k)

(* C5: source samples one second apart in UTC, the leap second and the    *)
(* seconds around it included, have quasi-times that increase by exactly  *)
(* one second (1/86400 day) from each sample to the next                  *)
C5_UniformSpacingAcrossLeap ==
    InCpf /\ out.quasi_cpf # <<>> /\ HasFlagStep =>
        \A k \in 0..(Len(table) - 2) :
            T(k + 1) - T(k) = Res =>
                At(out.quasi_cpf, k + 1) - At(out.quasi_cpf, k) = QuasiSecond

(* a one-second table across the inserted leap second, quasi-times computed *)
C5_Witness ==
    /\ InCpf /\ out.quasi_cpf # <<>>
    /\ \E k \in 1..(Len(table) - 3) :
          /\ StraddlesLeap(k)
          /\ T(k) - T(k - 1) = Res
          /\ T(k + 2) - T(k + 1) = Res

(* C6: with a flag step in the table, an output instant that coincides in *)
(* UTC with a source sample carries that sample's leap second and has its *)
(* quasi-time                                                             *)
C6_OutputLeapMatchesSource ==
    InCpf /\ out.quasi # <<>> /\ HasFlagStep =>
        \A k \in DOMAIN out.ts : \A i \in 0..(Len(table) - 1) :
            out.ts[k] = T(i) =>
                /\ out.leap_second[k] = At(table, i).leap
                /\ out.quasi[k] = At(out.quasi_cpf, i)

(* the apparent-mode call that returned *)
ApparentReturned == InCpf /\ call.req.mode = "apparent" /\ out.status = "ok"

(* C13: in apparent mode the trajectory is interpolated once at the        *)
(* nominal instants, once at instant + tau and once at instant - tau; the  *)
(* columns returned are the transmit azimuth, altitude and range, receive  *)
(* minus transmit for delta_az and delta_alt, and 2*(transmit range)/c     *)
C13_ApparentOneIteration ==
    ApparentReturned =>
        /\ Len(out.nominal.used) = Len(out.ts)
        /\ Len(out.trans.used) = Len(out.ts)
        /\ Len(out.recei.used) = Len(out.ts)
        /\ Len(out.returned) = Len(out.ts)
        /\ \A k \in DOMAIN out.ts :
              LET seen(of, pos) ==
                      [of |-> of,
                       site |-> EarthLocation(call.req.station, call.req.coord_type).site,
                       obstime |-> out.ts[k], position |-> pos]
                  tr == out.trans.positions[k]
                  re == out.recei.positions[k]
                  row == out.returned[k]
              IN  /\ out.nominal.used[k].q = out.quasi[k]
                  /\ out.trans.used[k].q = out.quasi[k] + 2 * call.req.tau
                  /\ out.recei.used[k].q = out.quasi[k] - 2 * call.req.tau
                  /\ tr.at = out.trans.used[k].q /\ re.at = out.recei.used[k].q
                  /\ row.az = seen("az", tr) /\ row.alt = seen("alt", tr)
                  /\ row.r = seen("r", tr)
                  /\ row.tof = [op |-> "2/c", r |-> seen("r", tr)]
                  /\ row.delta_az = [op |-> "minus", zero |-> re = tr,
                                     a |-> seen("az", re), b |-> seen("az", tr)]
                  /\ row.delta_alt = [op |-> "minus", zero |-> re = tr,
                                      a |-> seen("alt", re), b |-> seen("alt", tr)]

C13_Witness ==
    /\ ApparentReturned /\ call.req.tau = MaxTau /\ Len(out.ts) >= 2
    /\ ~out.returned[1].delta_az.zero
    /\ out.trans.positions[1] # out.nominal.positions[1]

(* C14: with the light time tau = 0, apparent mode returns the azimuth,    *)
(* altitude, range and time of flight that geometric mode returns for the  *)
(* same request at every output instant, and delta_az = delta_alt = 0      *)
C14_ApparentIsGeometricAtZeroTau ==
    InCpf /\ call.req.mode = "apparent" /\ call.req.tau = 0 =>
        LET g == cpf_interpolate(table, leapDay, [call.req EXCEPT !.mode = "geometric"])
        IN  /\ out.status = g.status
            /\ out.ts = g.ts
            /\ out.status = "ok" =>
                  /\ Len(out.returned) = Len(g.returned)
                  /\ \A k \in DOMAIN out.returned :
                        /\ out.returned[k].az = g.returned[k].az
                        /\ out.returned[k].alt = g.returned[k].alt
                        /\ out.returned[k].r = g.returned[k].r
                        /\ out.returned[k].tof = g.returned[k].tof
                        /\ out.returned[k].delta_az.zero
                        /\ out.returned[k].delta_alt.zero

C14_Witness ==
    /\ ApparentReturned /\ call.req.tau = 0 /\ Len(out.returned) >= 2
    /\ out.returned[2].delta_az.zero

----------------------------------------------------------------------------
(* visible_pass.py: t_list and next_pass                                   *)
(* Instants are ticks of 1/Res second; what skyfield computes from the TLE *)
(* and the station, the altitude at an instant, is the profile sky.ivs:    *)
(* the target is above the cutoff exactly on the listed tick intervals.    *)

(* next_pass, line 37: cutoff = 10 *)
Cutoff == 10

(* alt_sat.degrees at instant t; with graze the altitude equals the cutoff *)
(* on the tick before and the tick after each interval                     *)
AltDeg(s, t) ==
    IF \E k \in DOMAIN s.ivs : s.ivs[k][1] <= t /\ t <= s.ivs[k][2]
    THEN 3 * Cutoff
    ELSE IF s.graze /\ \E k \in DOMAIN s.ivs : t = s.ivs[k][1] - 1 \/ t = s.ivs[k][2] + 1
    THEN Cutoff
    ELSE 0

(* line 68, 84, 89: alt.degrees > cutoff *)
Above(s, t, cutoff) == AltDeg(s, t) > cutoff

(* line 62: int(np.round(60*np.sqrt(P/120))), P the period of line 60 in   *)
(* minutes; P10 is P in tenths of a minute, so the step is sqrt(3*P10)     *)
(* rounded: the r with (r - 1/2)^2 <= 3*P10 < (r + 1/2)^2                  *)
TStep(P10) ==
    CHOOSE r \in 0..(P10 + 2) :
        /\ (2 * r - 1) * (2 * r - 1) <= 12 * P10 \/ r = 0
        /\ 12 * P10 < (2 * r + 1) * (2 * r + 1)

(* skyfield Time.utc_iso(): the instant to the nearest whole second *)
utc_iso(t) == ((2 * t + Res) \div (2 * Res)) * Res

(* lines 32-34: t_start + [0, t_step, 2*t_step, ... < dt] ++ [dt] seconds *)
t_list(t_start, t_end, t_step) ==
    LET dt == Around(t_end - t_start)
        m == ArangeLen(dt, t_step)
    IN  [k \in 1..(m + 1) |->
            IF k <= m THEN t_start + (k - 1) * t_step * Res ELSE t_start + dt * Res]

SetMax(S) == CHOOSE x \in S : \A y \in S : x >= y

(* the members of a set of numbers in increasing order *)
Sorted(S) ==
    [k \in 1..Cardinality(S) |-> CHOOSE x \in S : Cardinality({y \in S : y < x}) = k - 1]

(* lines 91-94 without the else branch: the set taken as the first second *)
(* above the cutoff of the scan                                           *)
RefineSetFirst(s, rises, sets, t_step, cutoff) ==
    LET A == {j \in 0..t_step : AltDeg(s, rises + j * Res) > cutoff}
        B == {j \in 0..t_step : AltDeg(s, sets + j * Res) > cutoff}
    IN  IF A = {} \/ B = {}
        THEN [err |-> "IndexError", rise |-> 0, set |-> 0]
        ELSE [err |-> "none",
              rise |-> utc_iso(rises + SetMin(A) * Res),
              set |-> utc_iso(sets + SetMin(B) * Res)]

(* lines 81-95: one [rises, sets] pair refined second by second *)
Refine(s, rises, sets, t_step, cutoff) ==
    LET A == {j \in 0..t_step : Above(s, rises + j * Res, cutoff)}
        B == {j \in 0..t_step : Above(s, sets + j * Res, cutoff)}
    IN  IF A = {} \/ B = {}
        THEN [err |-> "IndexError", rise |-> 0, set |-> 0]
        ELSE [err |-> "none",
              rise |-> utc_iso(rises + SetMin(A) * Res),
              set |-> utc_iso(sets + (IF t_step \in B THEN SetMin(B) ELSE SetMax(B)) * Res)]

(* lines 57-96 *)
next_pass(s, t_start, t_end, cutoff) ==
    LET t_step == TStep(s.P10)
        t == t_list(t_start, t_end, t_step)
        n == Len(t)
        sat_above_horizon == [k \in 1..n |-> Above(s, t[k], cutoff)]
        found == Sorted({i \in 0..(n - 2) :
                            At(sat_above_horizon, i) # At(sat_above_horizon, i + 1)})
        opened == IF At(sat_above_horizon, found[1]) THEN <<0>> \o found ELSE found
        closed == IF Len(opened) % 2 # 0 THEN Append(opened, n - 1) ELSE opened
        boundaries == [k \in DOMAIN closed |-> utc_iso(At(t, closed[k]))]
        refined == [k \in 1..(Len(closed) \div 2) |->
                       Refine(s, boundaries[2 * k - 1], boundaries[2 * k], t_step, cutoff)]
        base == [err |-> "none", passes |-> <<>>, t_step |-> t_step, t |-> t,
                 first |-> FALSE, last |-> FALSE, boundaries |-> <<>>]
    IN  IF found = <<>>
        THEN base
        ELSE IF \E k \in DOMAIN refined : refined[k].err # "none"
        THEN [base EXCEPT !.err = "IndexError",
                          !.first = Len(opened) # Len(found),
                          !.last = Len(closed) # Len(opened),
                          !.boundaries = boundaries]
        ELSE [base EXCEPT !.passes = [k \in DOMAIN refined |->
                                         [rise |-> refined[k].rise, set |-> refined[k].set]],
                          !.first = Len(opened) # Len(found),
                          !.last = Len(closed) # Len(opened),
                          !.boundaries = boundaries]

----------------------------------------------------------------------------
(* The calls of next_pass *)

(* longest window, in seconds, of the profiles enumerated in full *)
MaxSpan == 5

(* periods of line 60 in tenths of a minute: a coarse step of 2 seconds *)
Periods == {1}

(* the ticks a call on these windows can sample *)
Ticks == Res..((MaxSpan + TStep(SetMax(Periods)) + 3) * Res)

(* the intervals of ticks that begin at lo or later *)
Intervals(lo) == UNION {{<<a, b>> : b \in {x \in Ticks : x >= a}} : a \in {x \in Ticks : x >= lo}}

(* step functions: above the cutoff on at most two intervals of ticks, at *)
(* least one tick below the cutoff between the two                        *)
Profiles ==
    {<<>>}
    \cup {<<i>> : i \in Intervals(0)}
    \cup UNION {{<<i, j>> : j \in Intervals(i[2] + 2)} : i \in Intervals(0)}

Skies == {[ivs |-> ivs, graze |-> FALSE, P10 |-> p] : ivs \in Profiles, p \in Periods}

(* the altitude crosses the cutoff upward 100 s and downward 500 s after  *)
(* the origin t0 of the time axis; a period of 30 minutes gives the coarse *)
(* step of 30 s                                                            *)
Crossing(t0) ==
    [ivs |-> <<<<t0 + 100 * Res + 1, t0 + 500 * Res - 1>>>>, graze |-> TRUE, P10 |-> 300]

(* the origin of a crossing profile *)
Origin(s) == s.ivs[1][1] - 1 - 100 * Res

(* windows of the enumerated profiles: start and end on any tick *)
Windows ==
    {[t_start |-> a, t_end |-> a + span * Res + e] :
        a \in Res..(2 * Res - 1), span \in {MaxSpan - 1, MaxSpan}, e \in 0..1}

(* windows around the crossing, a whole number of seconds from the origin, *)
(* in every phase of the coarse grid                                       *)
CrossingWindows(t0) ==
    {[t_start |-> t0 + a * Res, t_end |-> t0 + b * Res] :
        a \in {0, 30, 60} \cup 85..100, b \in 500..531 \cup {600}}

NextPass ==
    /\ call.name = "idle"
    /\ \E w \in (IF sky.graze THEN CrossingWindows(Origin(sky)) ELSE Windows) :
          /\ call' = [name |-> "next_pass", t_start |-> w.t_start, t_end |-> w.t_end]
          /\ out' = next_pass(sky, w.t_start, w.t_end, Cutoff)
    /\ UNCHANGED <<table, leapDay, sky, sun, info, disk>>

InitPass ==
    /\ table = <<>>
    /\ leapDay = -1
    /\ sky \in Skies
    /\ sun = NoSun
    /\ info = <<>>
    /\ disk = NoDisk
    /\ call = Idle
    /\ out = Nothing

InitCrossing ==
    /\ table = <<>>
    /\ leapDay = -1
    /\ sky \in {Crossing(t0) : t0 \in 0..(Res - 1)}
    /\ sun = NoSun
    /\ info = <<>>
    /\ disk = NoDisk
    /\ call = Idle
    /\ out = Nothing

NextOfPass == NextPass \/ Return

SpecPass == InitPass /\ [][NextOfPass]_vars

SpecCrossing == InitCrossing /\ [][NextOfPass]_vars

----------------------------------------------------------------------------
(* Properties of next_pass *)

InPass == call.name = "next_pass"

Dist(a, b) == IF a < b THEN b - a ELSE a - b

(* every interval of the profile lies inside the window of the call *)
ProfileInsideWindow ==
    \A k \in DOMAIN sky.ivs :
        call.t_start <= sky.ivs[k][1] /\ sky.ivs[k][2] <= call.t_end

(* C7: on a profile above the cutoff exactly on disjoint intervals inside  *)
(* the window, next_pass returns one pass per interval and no other, each  *)
(* rise and set within one second of the interval's ends                   *)
C7_OnePassPerInterval ==
    InPass /\ ProfileInsideWindow =>
        /\ out.err = "none"
        /\ Len(out.passes) = Len(sky.ivs)
        /\ \A k \in DOMAIN out.passes :
              /\ Dist(out.passes[k].rise, sky.ivs[k][1]) <= Res
              /\ Dist(out.passes[k].set, sky.ivs[k][2]) <= Res

(* C8: a target above the cutoff at t_start gives a pass whose rise is     *)
(* t_start, one above the cutoff at t_end a pass whose set is t_end        *)
(* (instants as next_pass reports them, to the second)                     *)
C8_EdgePasses ==
    InPass =>
        /\ Above(sky, call.t_start, Cutoff) =>
              /\ out.err = "none"
              /\ \E k \in DOMAIN out.passes : out.passes[k].rise = utc_iso(call.t_start)
        /\ Above(sky, call.t_end, Cutoff) =>
              /\ out.err = "none"
              /\ \E k \in DOMAIN out.passes : out.passes[k].set = utc_iso(call.t_end)

(* C9: every pass returned lies in the window, t_start <= rise <= set <=   *)
(* t_end (instants as next_pass reports them, to the second)               *)
C9_PassesInsideWindow ==
    InPass =>
        \A k \in DOMAIN out.passes :
            /\ utc_iso(call.t_start) <= out.passes[k].rise
            /\ out.passes[k].rise <= out.passes[k].set
            /\ out.passes[k].set <= utc_iso(call.t_end)

(* C10: the altitude crosses the cutoff of 10 degrees upward at 100 s and  *)
(* downward at 500 s, the coarse step is 30 s, the window holds both       *)
(* crossings: next_pass returns exactly one pass, its rise within 1 s of   *)
(* 100 s and its set within 1 s of 500 s                                   *)
C10_CrossingScenario ==
    InPass /\ sky.graze =>
        /\ out.err = "none"
        /\ out.t_step = 30
        /\ Len(out.passes) = 1
        /\ Dist(out.passes[1].rise, Origin(sky) + 100 * Res) <= Res
        /\ Dist(out.passes[1].set, Origin(sky) + 500 * Res) <= Res

(* the scenario run on the window from 0 s to 600 s: one pass returned *)
C10_Witness ==
    /\ InPass /\ sky = Crossing(0) /\ Cutoff = 10
    /\ call.t_start = 0 /\ call.t_end = 600 * Res
    /\ out.t_step = 30 /\ Len(out.t) = 21
    /\ Len(out.passes) = 1

----------------------------------------------------------------------------
(* visible_pass.py: visible_pass                                           *)
(* Angles are in units of 1/10000 degree.  A satellite of the TLE file is  *)
(* a record: noradid, its altitude profile (ivs, graze, P10, as for        *)
(* next_pass) and lit, the tick intervals on which is_sunlit is True.      *)
(* Date-and-time texts (.iso) are the records of TimeIso.                  *)

(* a variant of sun_alt_cutoff that takes any other value for 'civil' *)
sun_alt_cutoff_lenient(twilight) ==
    IF twilight.name = "dark" THEN [err |-> "none", deg |-> -180000]
    ELSE IF twilight.name = "astronomical" THEN [err |-> "none", deg |-> -120000]
    ELSE IF twilight.name = "nautical" THEN [err |-> "none", deg |-> -60000]
    ELSE IF twilight.name = "number" THEN [err |-> "none", deg |-> twilight.deg]
    ELSE [err |-> "none", deg |-> -8333]

(* lines 178-189: the solar cutoff of a twilight argument; a number is     *)
(* [name |-> "number", deg |-> its value]                                  *)
sun_alt_cutoff(twilight) ==
    IF twilight.name = "dark" THEN [err |-> "none", deg |-> -180000]
    ELSE IF twilight.name = "astronomical" THEN [err |-> "none", deg |-> -120000]
    ELSE IF twilight.name = "nautical" THEN [err |-> "none", deg |-> -60000]
    ELSE IF twilight.name = "civil" THEN [err |-> "none", deg |-> -8333]
    ELSE IF twilight.name = "number" THEN [err |-> "none", deg |-> twilight.deg]
    ELSE [err |-> "TwilightError", deg |-> 0]

(* line 235: sun_alt.degrees at instant t; the sun moves at sn.rate per    *)
(* tick and is at altitude sn.at at the instant sn.cross                   *)
SunAltDeg(sn, t) == sn.at - sn.rate * (t - sn.cross)

(* line 238: sat.at(t).is_sunlit(planets) *)
is_sunlit(sat, t) == \E k \in DOMAIN sat.lit : sat.lit[k][1] <= t /\ t <= sat.lit[k][2]

(* line 241 with the shadow in place of the sunlight *)
VisibleInShadow(sat, sn, cutoff, t) == SunAltDeg(sn, t) < cutoff /\ ~is_sunlit(sat, t)

(* line 241: visible = sun_beneath & sunlight *)
Visible(sat, sn, cutoff, t) == SunAltDeg(sn, t) < cutoff /\ is_sunlit(sat, t)

(* Time(text): the instant of a date-and-time text *)
IsoTicks(iso) == DayStart(iso.date, -1) + iso2sod(iso)

(* line 249 with the comparison made strict *)
LongEnoughStrict(during, visible_duration) == during > visible_duration

(* line 249: during >= visible_duration *)
LongEnough(during, visible_duration) == during >= visible_duration

(* lines 230-256: one pass of one satellite: whether a sample is visible,  *)
(* the summary row if one is written, the rows of the one-day listing      *)
OnePass(sat, p, sn, cutoff, timezone, visible_duration, t_start) ==
    LET t == t_list(p.rise, p.set, 1)
        visible == [k \in DOMAIN t |-> Visible(sat, sn, cutoff, t[k])]
        vis == {k \in DOMAIN t : visible[k]}
        first == utc_iso(t[SetMin(vis)])
        last == utc_iso(t[SetMax(vis)])
        during == (last - first) \div Res
    IN  [any |-> vis # {},
         rows |-> IF vis # {} /\ LongEnough(during, visible_duration)
                  THEN <<[kind |-> "window",
                          Start |-> TimeIso(first + timezone * 3600 * Res, -1),
                          End |-> TimeIso(last + timezone * 3600 * Res, -1),
                          NORADID |-> sat.noradid,
                          During |-> during]>>
                  ELSE <<>>,
         listing |-> IF p.set < t_start + DayTicks
                     THEN [k \in DOMAIN t |-> [t |-> t[k], visible |-> visible[k]]]
                     ELSE <<>>]

(* lines 229-256: the passes of one satellite, from pass k on *)
RECURSIVE PassesFrom(_, _, _, _, _, _, _, _)
PassesFrom(k, sat, passes, sn, cutoff, timezone, visible_duration, t_start) ==
    LET Both(one, rest) == [any |-> one.any \/ rest.any,
                            rows |-> one.rows \o rest.rows,
                            listing |-> one.listing \o rest.listing]
    IN  IF k > Len(passes) THEN [any |-> FALSE, rows |-> <<>>, listing |-> <<>>]
        ELSE Both(OnePass(sat, passes[k], sn, cutoff, timezone, visible_duration, t_start),
                  PassesFrom(k + 1, sat, passes, sn, cutoff, timezone,
                             visible_duration, t_start))

BlankLine == [kind |-> "blank", NORADID |-> 0]

(* a variant of NoPasses that never skips a target *)
NoPassesNever(passes) == FALSE

(* line 223, `if not passes: continue`: the target has no pass *)
NoPasses(passes) == passes = <<>>

(* lines 219-270: the satellites of the TLE file, from satellite k on:     *)
(* the lines written to VisiblePasses_bysat.csv and the one-day files      *)
RECURSIVE SatsFrom(_, _, _, _, _, _, _, _)
SatsFrom(k, sats, sn, cutoff, timezone, visible_duration, t_start, t_end) ==
    LET Lines(sat, all, rest) ==
            [err |-> rest.err,
             bysat |-> all.rows
                       \o (IF all.any THEN <<BlankLine>>
                           ELSE <<[kind |-> "novisible", NORADID |-> sat.noradid],
                                  BlankLine>>)
                       \o rest.bysat,
             files |-> <<[noradid |-> sat.noradid, rows |-> all.listing]>> \o rest.files]
        Passes(sat, np, rest) ==
            IF np.err # "none" THEN [err |-> np.err, bysat |-> <<>>, files |-> <<>>]
            ELSE IF NoPasses(np.passes) THEN rest
            ELSE Lines(sat, PassesFrom(1, sat, np.passes, sn, cutoff, timezone,
                                       visible_duration, t_start), rest)
    IN  IF k > Len(sats) THEN [err |-> "none", bysat |-> <<>>, files |-> <<>>]
        ELSE Passes(sats[k], next_pass(sats[k], t_start, t_end, Cutoff),
                    SatsFrom(k + 1, sats, sn, cutoff, timezone, visible_duration,
                             t_start, t_end))

(* pd.read_csv: the lines of the csv file, blank lines skipped *)
ReadCsv(lines) == SelectSeq(lines, LAMBDA r : r.kind # "blank")

(* the order of the date-and-time texts, as strings compare *)
IsoBefore(a, b) == IsoTicks(a) < IsoTicks(b)

(* sort_values(by = start time): rows of equal start keep their order *)
SortByStart(rows) ==
    LET Rank(k) == Cardinality({j \in DOMAIN rows :
                       \/ IsoBefore(rows[j].Start, rows[k].Start)
                       \/ (rows[j].Start = rows[k].Start /\ j < k)})
    IN  [i \in DOMAIN rows |-> rows[CHOOSE k \in DOMAIN rows : Rank(k) = i - 1]]

RECURSIVE Concat(_, _)
Concat(seqs, k) == IF k > Len(seqs) THEN <<>> ELSE seqs[k] \o Concat(seqs, k + 1)

(* lines 274-282: VisiblePasses_bydate.csv from the lines of               *)
(* VisiblePasses_bysat.csv; pd.concat of no group raises ValueError        *)
ByDate(bysat) ==
    LET VisiblePasses == ReadCsv(bysat)
        dated == SelectSeq(VisiblePasses, LAMBDA r : r.kind = "window")
        dates == Sorted({dated[k].Start.date : k \in DOMAIN dated})
        temp == [i \in DOMAIN dates |->
                    SortByStart(SelectSeq(dated, LAMBDA r : r.Start.date = dates[i]))
                    \o <<BlankLine>>]
    IN  IF dates = <<>>
        THEN [err |-> "ValueError", rows |-> <<>>]
        ELSE [err |-> "none", rows |-> Concat(temp, 1)]

(* dir_prediction after lines 204-209: emptied *)
EmptyDir == [bysat |-> <<>>, bydate |-> <<>>, has_bydate |-> FALSE, files |-> <<>>]

(* lines 132-283: the error raised, if any, and dir_prediction afterwards *)
visible_pass(dk, sn, start_time, end_time, timezone, twilight, visible_duration) ==
    LET Reports(run, bd) ==
            [err |-> bd.err,
             prediction |-> [bysat |-> run.bysat, bydate |-> bd.rows,
                             has_bydate |-> bd.err = "none", files |-> run.files]]
        Summary(run) ==
            IF run.err # "none"
            THEN [err |-> run.err,
                  prediction |-> [EmptyDir EXCEPT !.bysat = run.bysat, !.files = run.files]]
            ELSE Reports(run, ByDate(run.bysat))
        Loop(cut, t_start, t_end) ==
            IF cut.err # "none"
            THEN [err |-> cut.err, prediction |-> dk.prediction]
            ELSE Summary(SatsFrom(1, dk.tle, sn, cut.deg, timezone, visible_duration,
                                  t_start, t_end))
    IN  Loop(sun_alt_cutoff(twilight), start_time - timezone * 3600 * Res,
             end_time - timezone * 3600 * Res)

----------------------------------------------------------------------------
(* The calls of visible_pass *)

(* the window of the calls: the seconds -Before .. Before + 1 around the   *)
(* midnight that ends day 0                                                *)
Before == 4

Night == DayStart(1, -1)

Sec(k) == Night + k * Res

(* the seconds on which a satellite of the TLE files can be above the cutoff *)
Seconds == {Sec(k) : k \in -3..4}

(* the intervals of these seconds that begin at lo or later *)
Spans(lo) == UNION {{<<a, b>> : b \in {x \in Seconds : x >= a}} :
                       a \in {x \in Seconds : x >= lo}}

(* is_sunlit True on at most two intervals of seconds *)
Lits ==
    {<<>>}
    \cup {<<i>> : i \in Spans(Sec(-3))}
    \cup UNION {{<<i, j>> : j \in Spans(i[2] + 2 * Res)} : i \in Spans(Sec(-3))}

(* altitude profiles: one pass across midnight, two passes, no pass *)
OnePassIvs == <<<<Sec(-3), Sec(3)>>>>
TwoPassIvs == <<<<Sec(-3), Sec(-1)>>, <<Sec(2), Sec(4)>>>>

(* above the cutoff at second -1 only, between two instants of the grid *)
BetweenIvs == <<<<Sec(-1), Sec(-1)>>>>

Sat(id, ivs, lit) == [noradid |-> id, ivs |-> ivs, graze |-> FALSE, P10 |-> 1, lit |-> lit]

AlwaysLit == <<<<Sec(-3), Sec(4)>>>>

(* the TLE file: no satellite, one, or two in either order of NORAD id *)
TleFiles ==
    {<<>>}
    \cup {<<Sat(7646, ivs, lit)>> : ivs \in {OnePassIvs, TwoPassIvs}, lit \in Lits}
    \cup {<<Sat(id[1], ivs, lit), Sat(id[2], jvs, AlwaysLit)>> :
             id \in {<<7646, 25544>>, <<25544, 7646>>},
             ivs \in {<<>>, BetweenIvs, OnePassIvs, TwoPassIvs}, jvs \in {OnePassIvs, TwoPassIvs},
             lit \in {<<>>, AlwaysLit, <<<<Sec(1), Sec(2)>>>>}}

(* the sun: dark all night, up all the time, setting through -0.8333 deg   *)
(* at second -1, rising through -6 deg at second 1                         *)
Suns ==
    {[at |-> -300000, cross |-> Night, rate |-> 0],
     [at |-> 100000, cross |-> Night, rate |-> 0],
     [at |-> -150000, cross |-> Night, rate |-> 0],
     [at |-> -90000, cross |-> Night, rate |-> 0],
     [at |-> -8333, cross |-> Sec(-1), rate |-> 40],
     [at |-> -60000, cross |-> Sec(1), rate |-> -40]}

(* the twilight arguments: the four names, a float, an int, and a text     *)
(* that is none of the names                                               *)
Twilights ==
    {[name |-> "dark", deg |-> 0], [name |-> "astronomical", deg |-> 0],
     [name |-> "civil", deg |-> 0], [name |-> "nautical", deg |-> 0],
     [name |-> "number", deg |-> -8333], [name |-> "number", deg |-> -100000],
     [name |-> "dusk", deg |-> 0]}

(* one call of visible_pass, start to end, on the working directory *)
Call(start_time, end_time, timezone, twilight, visible_duration) ==
    \E r \in {visible_pass(disk, sun, start_time, end_time, timezone, twilight,
                          visible_duration)} :
        /\ call' = [name |-> "visible_pass", start_time |-> start_time,
                    end_time |-> end_time, timezone |-> timezone,
                    twilight |-> twilight, visible_duration |-> visible_duration]
        /\ out' = [err |-> r.err]
        /\ disk' = [disk EXCEPT !.prediction = r.prediction]
        /\ UNCHANGED <<table, leapDay, sky, sun, info>>

VisiblePass ==
    /\ call.name = "idle"
    /\ \E timezone \in {0, 1}, twilight \in Twilights, visible_duration \in {0, 3} :
          Call(Sec(0 - Before) + timezone * 3600 * Res,
               Sec(Before + 1) + timezone * 3600 * Res,
               timezone, twilight, visible_duration)

InitVisible ==
    /\ table = <<>>
    /\ leapDay = -1
    /\ sky = NoSky
    /\ sun \in Suns
    /\ info = <<>>
    /\ disk \in {[NoDisk EXCEPT !.tle = tle, !.prediction = EmptyDir] : tle \in TleFiles}
    /\ call = Idle
    /\ out = Nothing

NextOfVisible == VisiblePass \/ Return

SpecVisible == InitVisible /\ [][NextOfVisible]_vars

----------------------------------------------------------------------------
(* The twilight scenario: one pass at dusk *)

(* t seconds after the origin t0 of the scenario *)
After(t0, t) == t0 + t * Res

(* the sun goes down through -0.8333 deg 50 s after the origin *)
Dusk(t0) == [at |-> -8333, cross |-> After(t0, 50), rate |-> 20]

(* the origin of the scenario of a sun *)
DuskOrigin(sn) == sn.cross - 50 * Res

(* is_sunlit True exactly from 80 s to 300 s after the origin *)
LitInside(t0) == <<<<After(t0, 80), After(t0, 300)>>>>

(* is_sunlit False exactly from 80 s to 300 s after the origin *)
LitOutside(t0) == <<<<After(t0, 0), After(t0, 80) - 1>>, <<After(t0, 300) + 1, After(t0, 450)>>>>

(* one satellite, period 30 minutes, above the cutoff from rise to set     *)
(* seconds after the origin, a pass that covers 80 s .. 300 s              *)
DuskTle(t0) ==
    UNION {{<<[noradid |-> 7646, ivs |-> <<<<After(t0, rise), After(t0, set)>>>>,
               graze |-> FALSE, P10 |-> 300, lit |-> lit]>> :
               rise \in {10, 20, 70, 80}, set \in {300, 310, 400}} :
           lit \in {LitInside(t0), LitOutside(t0)}}

(* the scenario begins a minute and a half before midnight, or at midnight *)
DuskOrigins == {After(Night, -90), Night}

TwilightPass ==
    /\ call.name = "idle"
    /\ \E timezone \in {0, 1}, twilight \in Twilights, visible_duration \in {0, 220, 221} :
          Call(DuskOrigin(sun) + timezone * 3600 * Res,
               After(DuskOrigin(sun), 450) + timezone * 3600 * Res,
               timezone, twilight, visible_duration)

InitTwilight ==
    /\ table = <<>>
    /\ leapDay = -1
    /\ sky = NoSky
    /\ info = <<>>
    /\ \E t0 \in DuskOrigins :
          /\ sun = Dusk(t0)
          /\ disk \in {[NoDisk EXCEPT !.tle = tle, !.prediction = EmptyDir] : tle \in DuskTle(t0)}
    /\ call = Idle
    /\ out = Nothing

NextOfTwilight == TwilightPass \/ Return

SpecTwilight == InitTwilight /\ [][NextOfTwilight]_vars

----------------------------------------------------------------------------
(* Properties of visible_pass *)

InVisible == call.name = "visible_pass"

(* the call got through the twilight argument and the pass detection *)
Reported == InVisible /\ out.err \in {"none", "ValueError"}

UtcStart == call.start_time - call.timezone * 3600 * Res
UtcEnd == call.end_time - call.timezone * 3600 * Res

(* a date-and-time text of a report, back on the UTC scale *)
RowUtc(iso) == IsoTicks(iso) - call.timezone * 3600 * Res

SatOf(id) == CHOOSE k \in DOMAIN disk.tle : disk.tle[k].noradid = id

WindowRows(lines) == SelectSeq(lines, LAMBDA r : r.kind = "window")

(* the visible windows of the call: for every satellite and every pass of  *)
(* it with a visible second, the first and the last visible second         *)
VisibleWindows ==
    LET cutoff == sun_alt_cutoff(call.twilight).deg
        PassOf(k) == next_pass(disk.tle[k], UtcStart, UtcEnd, Cutoff).passes
        Vis(k, p) == {t \in {p.rise + j * Res : j \in 0..((p.set - p.rise) \div Res)} :
                         Visible(disk.tle[k], sun, cutoff, t)}
    IN  {[NORADID |-> disk.tle[k].noradid, first |-> SetMin(Vis(k, PassOf(k)[i])),
          last |-> SetMax(Vis(k, PassOf(k)[i]))] :
            <<k, i>> \in {x \in UNION {{<<k, i>> : i \in DOMAIN PassOf(k)} : k \in DOMAIN disk.tle} :
                            Vis(x[1], PassOf(x[1])[x[2]]) # {}}}

(* C11: between the first and the last instant of a reported visible       *)
(* window every 1-second sample is visible: the sun below the twilight     *)
(* cutoff and the target sunlit                                            *)
C11_WindowAllVisible ==
    Reported =>
        \A k \in DOMAIN disk.prediction.bysat :
            LET row == disk.prediction.bysat[k]
            IN  row.kind = "window" =>
                    \A j \in 0..row.During :
                        Visible(disk.tle[SatOf(row.NORADID)], sun,
                                sun_alt_cutoff(call.twilight).deg,
                                RowUtc(row.Start) + j * Res)

(* the call of the twilight scenario with the civil preset *)
CivilDusk == Reported /\ call.twilight.name = "civil" /\ sun = Dusk(DuskOrigin(sun))

(* the by-satellite summary is the one row of the window from a to b       *)
(* seconds after the origin of the scenario                                *)
OnlyRow(a, b) ==
    LET rows == WindowRows(disk.prediction.bysat)
    IN  /\ Len(rows) = 1
        /\ RowUtc(rows[1].Start) = After(DuskOrigin(sun), a)
        /\ RowUtc(rows[1].End) = After(DuskOrigin(sun), b)
        /\ rows[1].During = b - a

(* C12 as stated: civil twilight, the sun below -0.8333 deg after 50 s,    *)
(* the sunlit flag False exactly from 80 s to 300 s: the visible window    *)
(* reported is 80 s .. 300 s                                               *)
C12_WindowWhereFlagFalse ==
    CivilDusk /\ disk.tle[1].lit = LitOutside(DuskOrigin(sun)) /\ call.visible_duration <= 220
        => OnlyRow(80, 300)

(* C12 amended: with the sunlit flag True exactly from 80 s to 300 s the   *)
(* visible window is 80 s .. 300 s, a row of the summary when              *)
(* visible_duration is at most its 220 s and dropped otherwise             *)
C12_WindowWhereSunlit ==
    CivilDusk /\ disk.tle[1].lit = LitInside(DuskOrigin(sun))
        => IF call.visible_duration <= 220
           THEN OnlyRow(80, 300)
           ELSE WindowRows(disk.prediction.bysat) = <<>>

C12_Witness ==
    /\ CivilDusk /\ disk.tle[1].lit = LitInside(DuskOrigin(sun))
    /\ disk.tle[1].ivs[1][1] < After(DuskOrigin(sun), 80)
    /\ disk.tle[1].ivs[1][2] > After(DuskOrigin(sun), 300)
    /\ call.visible_duration = 220
    /\ OnlyRow(80, 300)

(* C19: a visible window is a row of the by-satellite summary, and of the  *)
(* by-date summary, exactly when the whole seconds from its first to its   *)
(* last visible instant are at least visible_duration                      *)
C19_RowIffLongEnough ==
    Reported =>
        /\ \A w \in VisibleWindows :
              (\E k \in DOMAIN disk.prediction.bysat :
                  LET row == disk.prediction.bysat[k]
                  IN  /\ row.kind = "window" /\ row.NORADID = w.NORADID
                      /\ RowUtc(row.Start) = w.first /\ RowUtc(row.End) = w.last
                      /\ row.During = (w.last - w.first) \div Res)
              <=> (w.last - w.first) \div Res >= call.visible_duration
        /\ \A k \in DOMAIN disk.prediction.bysat :
              LET row == disk.prediction.bysat[k]
              IN  row.kind = "window" =>
                      /\ [NORADID |-> row.NORADID, first |-> RowUtc(row.Start),
                          last |-> RowUtc(row.End)] \in VisibleWindows
                      /\ disk.prediction.has_bydate
                      /\ \E j \in DOMAIN disk.prediction.bydate :
                            disk.prediction.bydate[j] = row
        /\ \A j \in DOMAIN disk.prediction.bydate :
              disk.prediction.bydate[j].kind = "window" =>
                  \E k \in DOMAIN disk.prediction.bysat :
                      disk.prediction.bysat[k] = disk.prediction.bydate[j]

(* with a minimum of 3 s, a window of exactly 3 s has its row in both      *)
(* summaries and a shorter window of the same call has none                *)
C19_Witness ==
    /\ Reported /\ call.visible_duration = 3
    /\ \E k \in DOMAIN disk.prediction.bysat :
          /\ disk.prediction.bysat[k].kind = "window"
          /\ disk.prediction.bysat[k].During = 3
    /\ \E w \in VisibleWindows : w.last - w.first < 3 * Res
    /\ Len(WindowRows(disk.prediction.bydate)) = 1

(* C20: the per-date report holds exactly the window rows of the           *)
(* per-target report, each once, the dates ascending and the start times   *)
(* ascending within a date; the per-target report is sorted by target      *)
C20_ReportsSorted ==
    Reported =>
        LET bysat == WindowRows(disk.prediction.bysat)
            bydate == WindowRows(disk.prediction.bydate)
        IN  /\ out.err = "none" /\ disk.prediction.has_bydate
            /\ Len(bydate) = Len(bysat)
            /\ \A k \in DOMAIN bysat :
                  Cardinality({j \in DOMAIN bydate : bydate[j] = bysat[k]})
                      = Cardinality({j \in DOMAIN bysat : bysat[j] = bysat[k]})
            /\ \A j \in 1..(Len(bydate) - 1) :
                  ~IsoBefore(bydate[j + 1].Start, bydate[j].Start)
            /\ \A j \in 1..(Len(bysat) - 1) :
                  bysat[j].NORADID <= bysat[j + 1].NORADID

----------------------------------------------------------------------------
(* read_cpf, read_cpfs and CPFdata.pred *)
(* A CPF file: target (H1), the four codes of H2 checked by read_cpf, and  *)
(* recs, its '10' records in file order: direction code, MJD, SoD, leap    *)
(* second flag, position.                                                  *)

(* cpf_read.py lines 44-53 *)
TargetType(code) ==
    CASE code = 1 -> "passive(retro-reflector) artificial satellite"
      [] code = 2 -> "passive(retro-reflector) lunar reflector"
      [] code = 3 -> "synchronous transponder"
      [] code = 4 -> "asynchronous transponder"
      [] OTHER -> "Unknown target type"

(* lines 56-63 *)
ReferenceFrame(code) ==
    CASE code = 0 -> "ITRF(default)"
      [] code = 1 -> "GCRF(True of Date)"
      [] code = 2 -> "GCRF(Mean of Date J2000.0)"
      [] OTHER -> "Unknown reference frame type"

(* lines 66-73 *)
RotationalAngle(code) ==
    CASE code = 0 -> "Not Applicable"
      [] code = 1 -> "Lunar Euler angles"
      [] code = 2 -> "North pole Right Ascension and Declination, and angle to prime meridian"
      [] OTHER -> "Unknown rotational angle type"

(* lines 76-81 *)
CMCorrection(code) ==
    CASE code = 0 -> "None applied. Prediction is for center of mass of target"
      [] code = 1 -> "Applied. Prediction is for retro-reflector array"
      [] OTHER -> "Unknown center of mass correction type"

(* lines 93-100 *)
Direction(code) ==
    CASE code = 0 -> "instantaneous vector from geocenter to target, without light-time iteration"
      [] code = 1 -> "position vector from geocenter to target with light-time iteration at the transmit epoch"
      [] code = 2 -> "position vector from target to geocenter with light-time iteration at the receive epoch"
      [] OTHER -> "Unknown direction flag"

Unknown == {"Unknown target type", "Unknown reference frame type",
            "Unknown rotational angle type", "Unknown center of mass correction type",
            "Unknown direction flag"}

NoData == [Target_Name |-> "", Target_Type |-> "", Reference_Frame |-> "",
           Rotational_Angle |-> "", CM_Correction |-> "", Direction |-> "",
           tbl |-> <<>>, ts_utc |-> <<>>]

(* line 85: direction_flag = info[1] at every '10' record, the last one    *)
(* standing when the loop of line 27 ends                                  *)
DirectionFlag(recs) == recs[Len(recs)].dir

(* lines 25-108: err is "none" and data the dictionary returned, or err is *)
(* the exception raised and nothing is returned                            *)
read_cpf(f, L) ==
    LET failed(e) == [err |-> e, data |-> NoData]
        tbl == [i \in DOMAIN f.recs |->
                   [mjd |-> f.recs[i].mjd, sod |-> f.recs[i].sod,
                    leap |-> f.recs[i].leap, pos |-> f.recs[i].pos]]
    IN  IF TargetType(f.h2.target_type) \in Unknown THEN failed("Exception")
        ELSE IF ReferenceFrame(f.h2.reference_frame) \in Unknown THEN failed("Exception")
        ELSE IF RotationalAngle(f.h2.rotational_angle) \in Unknown THEN failed("Exception")
        ELSE IF CMCorrection(f.h2.cm) \in Unknown THEN failed("Exception")
        ELSE IF f.recs = <<>> THEN failed("UnboundLocalError")
        ELSE IF Direction(DirectionFlag(f.recs)) \in Unknown THEN failed("Exception")
        ELSE [err |-> "none",
              data |-> [Target_Name |-> f.target,
                        Target_Type |-> TargetType(f.h2.target_type),
                        Reference_Frame |-> ReferenceFrame(f.h2.reference_frame),
                        Rotational_Angle |-> RotationalAngle(f.h2.rotational_angle),
                        CM_Correction |-> CMCorrection(f.h2.cm),
                        Direction |-> Direction(DirectionFlag(f.recs)),
                        tbl |-> tbl,
                        ts_utc |-> [i \in DOMAIN tbl |-> SampleUtc(tbl[i], L)]]]

(* lines 124-131: the loop over the files from file k on, data the list    *)
(* built so far; an exception of read_cpf ends the call                    *)
RECURSIVE ReadFrom(_, _, _, _)
ReadFrom(k, cpf_files, L, data) ==
    IF k > Len(cpf_files) THEN [err |-> "none", info |-> data]
    ELSE LET r == read_cpf(cpf_files[k], L)
         IN  IF r.err # "none" THEN [err |-> r.err, info |-> <<>>]
             ELSE ReadFrom(k + 1, cpf_files, L, Append(data, r.data))

(* lines 110-131; CPFdata(data) keeps data as its info *)
read_cpfs(cpf_files, L) == ReadFrom(1, cpf_files, L, <<>>)

(* open(dir_pred_to+target+'.txt','w') and the rows written: a file of the *)
(* same name is replaced                                                   *)
WriteFile(dir, name, rows) ==
    SelectSeq(dir, LAMBDA x : x.name # name) \o <<[name |-> name, rows |-> rows]>>

(* cpfpred.py lines 100-104, 109-113: the rows of a prediction file *)
PredRows(r, L) ==
    [i \in DOMAIN r.ts |->
        [ts |-> TimeIso(r.ts[i], L), ts_mjd |-> r.ts_mjd[i], ts_sod |-> r.ts_sod[i],
         cols |-> r.returned[i]]]

(* lines 87-116: the loop over self.info from file k on; dir is pred/ *)
RECURSIVE PredFrom(_, _, _, _, _)
PredFrom(k, data, L, req, dir) ==
    IF k > Len(data) THEN [err |-> "none", pred |-> dir]
    ELSE LET opened == WriteFile(dir, data[k].Target_Name, <<>>)
             r == cpf_interpolate(data[k].tbl, L, req)
         IN  IF req.mode \notin {"geometric", "apparent"}
             THEN [err |-> "ModeError", pred |-> opened]
             ELSE IF r.status # "ok"
             THEN [err |-> r.status, pred |-> opened]
             ELSE PredFrom(k + 1, data, L, req,
                           WriteFile(dir, data[k].Target_Name, PredRows(r, L)))

(* CPFdata.pred, lines 79-116: pred/ is emptied, then one file per target *)
pred(data, L, req) == PredFrom(1, data, L, req, <<>>)

----------------------------------------------------------------------------
(* The calls of read_cpf, read_cpfs and CPFdata.pred on a directory of CPF *)
(* files                                                                   *)

GoodH2 == [target_type |-> 1, reference_frame |-> 0, rotational_angle |-> 0, cm |-> 1]

(* headers with one code outside its enumeration *)
BadH2s ==
    {[GoodH2 EXCEPT !.target_type = 5], [GoodH2 EXCEPT !.reference_frame = 3],
     [GoodH2 EXCEPT !.rotational_angle = 3], [GoodH2 EXCEPT !.cm = 2]}

(* the samples of a file: one-second samples across the midnight of the    *)
(* leap day, or of day 1 when the calendar has no leap second              *)
FileTable(L) == ElapsedTable(DayStart(Midnight(L), L) - 6 * Res, Res, L)

(* the '10' records of a table, dirs their direction codes *)
Records(tbl, dirs) ==
    [i \in DOMAIN tbl |-> [dir |-> dirs[i], mjd |-> tbl[i].mjd, sod |-> tbl[i].sod,
                           leap |-> tbl[i].leap, pos |-> tbl[i].pos]]

(* direction codes of the records: all 0, all 7, 7 on the first record     *)
(* only, 7 on the last record only                                         *)
DirCodes(n) ==
    [all |-> [i \in 1..n |-> 0], none |-> [i \in 1..n |-> 7],
     first |-> [i \in 1..n |-> IF i = 1 THEN 7 ELSE 0],
     last |-> [i \in 1..n |-> IF i = n THEN 7 ELSE 0]]

(* records 6 and 7 of a table exchanged *)
Swapped(tbl) ==
    [i \in DOMAIN tbl |-> IF i = 6 THEN tbl[7] ELSE IF i = 7 THEN tbl[6] ELSE tbl[i]]

(* the leap second flag of records 3 and 4 inverted: two more steps *)
TwoSteps(tbl) ==
    [i \in DOMAIN tbl |-> IF i \in {3, 4} THEN [tbl[i] EXCEPT !.leap = 1 - tbl[i].leap]
                          ELSE tbl[i]]

CpfFile(target, h2, recs) == [target |-> target, h2 |-> h2, recs |-> recs]

(* the files of a day's download *)
CpfFiles(L) ==
    LET tbl == FileTable(L)
        zero == DirCodes(Len(tbl)).all
    IN  {CpfFile(name, GoodH2, Records(tbl, zero)) : name \in {"lageos1", "ajisai"}}
        \cup {CpfFile("lageos1", h2, Records(tbl, zero)) : h2 \in BadH2s}
        \cup {CpfFile("lageos1", GoodH2, Records(tbl, DirCodes(Len(tbl))[d])) :
                 d \in {"none", "first", "last"}}
        \cup {CpfFile("lageos1", GoodH2, Records(t, zero)) : t \in {Swapped(tbl), TwoSteps(tbl)}}
        \cup {CpfFile("lageos1", GoodH2, <<>>)}

(* the directory: no file, one file, or two *)
CpfDirs(L) ==
    {<<>>} \cup {<<f>> : f \in CpfFiles(L)} \cup {<<f, g>> : f \in CpfFiles(L), g \in CpfFiles(L)}

ReadCpf ==
    /\ call.name = "idle"
    /\ \E k \in DOMAIN disk.cpf :
          /\ call' = [name |-> "read_cpf", file |-> k]
          /\ out' = read_cpf(disk.cpf[k], leapDay)
    /\ UNCHANGED <<table, leapDay, sky, sun, info, disk>>

(* cpf_data = read_cpfs(cpf_files) on all the files of the directory, on   *)
(* the first one only, or on none; on an exception cpf_data is not bound   *)
ReadCpfs ==
    /\ call.name = "idle"
    /\ \E n \in 0..Len(disk.cpf) :
          \E r \in {read_cpfs(SubSeq(disk.cpf, 1, n), leapDay)} :
              /\ call' = [name |-> "read_cpfs", files |-> n]
              /\ out' = r
              /\ info' = IF r.err = "none" THEN r.info ELSE info
    /\ UNCHANGED <<table, leapDay, sky, sun, disk>>

(* requests of a prediction: the interpolation range of the files, or one  *)
(* that begins a tick too early                                            *)
PredRequests(L) ==
    LET tbl == FileTable(L)
    IN  {[t_start |-> SampleUtc(At(tbl, 4), L) - a,
          t_end |-> SampleUtc(At(tbl, Len(tbl) - 5), L),
          inc |-> Res, mode |-> mode, tau |-> tau,
          station |-> Station, coord_type |-> "geodetic"] :
            a \in 0..1, mode \in Modes, tau \in 0..MaxTau}

Pred ==
    /\ call.name = "idle"
    /\ \E req \in PredRequests(leapDay) :
          /\ req.mode # "apparent" => req.tau = 0
          /\ \E r \in {pred(info, leapDay, req)} :
                /\ call' = [name |-> "pred", req |-> req]
                /\ out' = [err |-> r.err]
                /\ disk' = [disk EXCEPT !.pred = r.pred]
    /\ UNCHANGED <<table, leapDay, sky, sun, info>>

(* info: the CPFdata of no file, read_cpfs([]) *)
InitCpf ==
    /\ table = <<>>
    /\ leapDay \in {-1, 1}
    /\ sky = NoSky
    /\ sun = NoSun
    /\ info = <<>>
    /\ disk \in {[NoDisk EXCEPT !.cpf = d] : d \in CpfDirs(leapDay)}
    /\ call = Idle
    /\ out = Nothing

NextOfCpf == ReadCpf \/ ReadCpfs \/ Pred \/ Return

SpecCpf == InitCpf /\ [][NextOfCpf]_vars

----------------------------------------------------------------------------
(* Properties of read_cpf, read_cpfs and CPFdata.pred *)

InPred == call.name = "pred"
InReadCpf == call.name = "read_cpf"
InReadCpfs == call.name = "read_cpfs"

(* C15: for a mode other than 'geometric' and 'apparent' CPFdata.pred and  *)
(* cpf_interpolate end with an error, no row is written to a prediction    *)
(* file and no result is returned                                          *)
C15_UnknownModeFails ==
    InPred /\ call.req.mode \notin {"geometric", "apparent"} =>
        /\ out.err # "none"
        /\ \A k \in DOMAIN disk.pred : disk.pred[k].rows = <<>>
        /\ \A k \in DOMAIN info :
              LET r == cpf_interpolate(info[k].tbl, leapDay, call.req)
              IN  r.status # "ok" /\ r.returned = <<>>

(* the codes of a file that are outside their enumerations *)
UnknownCodes(f) ==
    {c \in {"target_type", "reference_frame", "rotational_angle", "cm"} :
        f.h2[c] \notin (CASE c = "target_type" -> 1..4
                          [] c = "cm" -> 0..1
                          [] OTHER -> 0..2)}
    \cup {"direction" : i \in {j \in DOMAIN f.recs : f.recs[j].dir \notin 0..2}}

(* C16: read_cpf fails, and returns no record, when a code of the H2       *)
(* header or the direction code of any '10' record is not enumerated; a    *)
(* record returned carries no default in place of an unknown code          *)
C16_UnknownCodeFails ==
    InReadCpf =>
        /\ UnknownCodes(disk.cpf[call.file]) # {} => out.err # "none" /\ out.data = NoData
        /\ out.err = "none" =>
              {out.data.Target_Type, out.data.Reference_Frame, out.data.Rotational_Angle,
               out.data.CM_Correction, out.data.Direction} \cap Unknown = {}

(* C17: when a file given to read_cpfs has an unrecognized code, the other *)
(* files of the batch are still parsed and the records delivered           *)
C17_OtherFilesDelivered ==
    InReadCpfs /\ (\E j \in 1..call.files : UnknownCodes(disk.cpf[j]) \ {"direction"} # {}) =>
        \A k \in 1..call.files :
            LET r == read_cpf(disk.cpf[k], leapDay)
            IN  r.err = "none" => \E j \in DOMAIN out.info : out.info[j] = r.data

(* (MJD, SoD) of sample a before that of sample b *)
Earlier(a, b) == a.mjd < b.mjd \/ (a.mjd = b.mjd /\ a.sod < b.sod)

(* C18: the samples of a record returned by read_cpf are strictly          *)
(* increasing in (MJD, SoD) and the leap second flag steps at most once    *)
C18_RecordInvariant ==
    InReadCpf /\ out.err = "none" =>
        LET tbl == out.data.tbl
        IN  /\ \A i \in 1..(Len(tbl) - 1) : Earlier(tbl[i], tbl[i + 1])
            /\ Cardinality({i \in 1..(Len(tbl) - 1) : tbl[i].leap # tbl[i + 1].leap}) <= 1

(***************************************************************************)
(* Targets without a pass                                                  *)
(***************************************************************************)

(* the instants of the coarse grid of the call *)
GridOf(sat) ==
    LET t == t_list(UtcStart, UtcEnd, TStep(sat.P10)) IN {t[k] : k \in DOMAIN t}

(* the satellites of the TLE file that are above the cutoff at no instant  *)
(* of the coarse grid                                                      *)
NeverAbove == {k \in DOMAIN disk.tle :
                  \A t \in GridOf(disk.tle[k]) : ~Above(disk.tle[k], t, Cutoff)}

(* C21: for a target that is above the cutoff at no instant of the coarse  *)
(* grid, next_pass returns an empty list without error, and visible_pass   *)
(* writes no one-day file and no line of the summary for it and goes on    *)
(* with the other targets, each of which has its one-day file.             *)
C21_NoPassTargetSkipped ==
    InVisible =>
        \A k \in NeverAbove :
            LET np == next_pass(disk.tle[k], UtcStart, UtcEnd, Cutoff)
                id == disk.tle[k].noradid
            IN  /\ np.err = "none" /\ np.passes = <<>>
                /\ Reported =>
                      /\ \A j \in DOMAIN disk.prediction.files :
                            disk.prediction.files[j].noradid # id
                      /\ \A j \in DOMAIN disk.prediction.bysat :
                            disk.prediction.bysat[j].NORADID # id
                      /\ \A j \in DOMAIN disk.prediction.bydate :
                            disk.prediction.bydate[j].NORADID # id
                      /\ \A m \in DOMAIN disk.tle \ NeverAbove :
                            \E j \in DOMAIN disk.prediction.files :
                                disk.prediction.files[j].noradid = disk.tle[m].noradid

(* a target above the cutoff only between two instants of the grid is      *)
(* skipped and the target after it is reported                             *)
C21_Witness ==
    /\ Reported /\ out.err = "none"
    /\ Len(disk.tle) = 2 /\ NeverAbove = {1}
    /\ disk.tle[1].ivs # <<>>
    /\ Len(disk.prediction.files) = 1
    /\ disk.prediction.files[1].noradid = disk.tle[2].noradid
    /\ WindowRows(disk.prediction.bysat) # <<>>

(***************************************************************************)
(* The twilight argument                                                   *)
(***************************************************************************)

(* the solar cutoff, in 1/10000 degree, that each twilight name stands for *)
TwilightDeg ==
    [dark |-> -180000, astronomical |-> -120000, nautical |-> -60000, civil |-> -8333]

(* the call that has just been made, with a number for its twilight *)
WithNumber(deg) ==
    visible_pass(disk, sun, call'.start_time, call'.end_time, call'.timezone,
                 [name |-> "number", deg |-> deg], call'.visible_duration)

(* C22: a call with one of the four twilight names leaves the reports of   *)
(* the same call with -18, -12, -6 or -0.8333 degrees, a call with a       *)
(* number uses that number, and a call with any other value fails with     *)
(* dir_prediction as it was before the call.                               *)
C22_TwilightCutoff ==
    [][(call.name = "idle" /\ call'.name = "visible_pass") =>
          IF call'.twilight.name \in DOMAIN TwilightDeg
          THEN /\ sun_alt_cutoff(call'.twilight)
                      = [err |-> "none", deg |-> TwilightDeg[call'.twilight.name]]
               /\ \E w \in {WithNumber(TwilightDeg[call'.twilight.name])} :
                      out'.err = w.err /\ disk'.prediction = w.prediction
          ELSE IF call'.twilight.name = "number"
          THEN sun_alt_cutoff(call'.twilight) = [err |-> "none", deg |-> call'.twilight.deg]
          ELSE /\ out'.err = "TwilightError"
               /\ disk'.prediction = disk.prediction]_vars

(* a call with a twilight that is no name and no number, made on a         *)
(* directory that holds the reports of an earlier call                     *)
C22_Witness ==
    /\ InVisible /\ out.err = "TwilightError"
    /\ call.twilight.name = "dusk"
    /\ disk.prediction.has_bydate
    /\ disk.prediction.files # <<>>

(***************************************************************************)
(* The station                                                             *)
(***************************************************************************)

(* C23: with coord_type 'geodetic' the site of the returned azimuths has   *)
(* the first number of the station as its longitude, the second as its     *)
(* latitude and the third as its height; with 'geocentric' the three       *)
(* numbers are its x, y and z.                                             *)
C23_StationAsDocumented ==
    InCpf =>
        LET loc == EarthLocation(call.req.station, call.req.coord_type)
            station == call.req.station
        IN  /\ loc.err = "none"
            /\ IF call.req.coord_type = "geodetic"
               THEN /\ loc.site.frame = "geodetic"
                    /\ loc.site.lon = station[1] /\ loc.site.lat = station[2]
                    /\ loc.site.height = station[3]
               ELSE /\ loc.site.frame = "geocentric"
                    /\ loc.site.x = station[1] /\ loc.site.y = station[2]
                    /\ loc.site.z = station[3]
            /\ out.status = "ok" =>
                  \A k \in DOMAIN out.returned : out.returned[k].az.site = loc.site

(***************************************************************************)
(* The passes of next_pass                                                 *)
(***************************************************************************)

(* the instants of the one-second scan that begins at boundary b at which  *)
(* the target is above the cutoff                                          *)
ScanAbove(b) == {x \in {b + j * Res : j \in 0..out.t_step} : Above(sky, x, Cutoff)}

(* C24: every scan has an instant above the cutoff; the rise reported is   *)
(* the first such instant of its scan, the set reported the last such      *)
(* instant of its scan when the final instant of the scan is not above the *)
(* cutoff and the first one otherwise; the target is above the cutoff at   *)
(* the rise and at the set reported.                                       *)
C24_BoundaryRefinement ==
    InPass /\ out.boundaries # <<>> =>
        /\ out.err = "none"
        /\ 2 * Len(out.passes) = Len(out.boundaries)
        /\ \A k \in DOMAIN out.passes :
              LET A == ScanAbove(out.boundaries[2 * k - 1])
                  B == ScanAbove(out.boundaries[2 * k])
                  final == out.boundaries[2 * k] + out.t_step * Res
              IN  /\ A # {} /\ B # {}
                  /\ out.passes[k].rise = SetMin(A)
                  /\ out.passes[k].set = (IF final \in B THEN SetMin(B) ELSE SetMax(B))
                  /\ Above(sky, out.passes[k].rise, Cutoff)
                  /\ Above(sky, out.passes[k].set, Cutoff)

(* C25: the passes returned are in the order of time: the rise of a pass   *)
(* is not later than its set, and the set of a pass is strictly earlier    *)
(* than the rise of the pass after it.                                     *)
C25_PassesOrdered ==
    InPass =>
        /\ \A k \in DOMAIN out.passes : out.passes[k].rise <= out.passes[k].set
        /\ \A k \in 1..(Len(out.passes) - 1) : out.passes[k].set < out.passes[k + 1].rise

(***************************************************************************)
(* Tables whose leap-second flags are all equal                            *)
(***************************************************************************)

(* C26: on a table whose leap-second flags are all equal, all 0 or all     *)
(* nonzero, the leap-second detection of cpf_interpolate raises no error   *)
(* and finds no boundary, every output instant gets the leap second 0, and *)
(* an output instant that coincides in UTC with a source sample has the    *)
(* quasi-time of that sample.                                              *)
C26_EqualFlagsNoError ==
    InCpf /\ ~HasFlagStep /\ out.status # "OutOfRange" =>
        LET ls == LeapSeconds(out.ts_mjd, MjdCpf(table), LeapCpf(table))
        IN  /\ ls.err = "none"
            /\ out.status # "IndexError"
            /\ \A k \in DOMAIN out.ts : out.leap_second[k] = 0
            /\ out.quasi # <<>>
            /\ \A k \in DOMAIN out.ts : \A i \in 0..(Len(table) - 1) :
                  out.ts[k] = T(i) => out.quasi[k] = At(out.quasi_cpf, i)

(***************************************************************************)
(* Calls that find no visible window                                       *)
(***************************************************************************)

(* C27: a call in which no target has a visible window of at least         *)
(* visible_duration seconds, the call that finds no pass at all included,  *)
(* ends without error with both summary files written, the by-date report  *)
(* holding no row.                                                         *)
C27_NoWindowStillReported ==
    Reported /\ (\A w \in VisibleWindows :
                    (w.last - w.first) \div Res < call.visible_duration) =>
        /\ out.err = "none"
        /\ disk.prediction.has_bydate
        /\ WindowRows(disk.prediction.bysat) = <<>>
        /\ WindowRows(disk.prediction.bydate) = <<>>

(***************************************************************************)
(* The azimuth difference of apparent mode                                 *)
(***************************************************************************)

(* C28: in apparent mode delta_az, the receive azimuth minus the transmit  *)
(* azimuth, lies within [-180, 180] degrees at every output instant (here  *)
(* those whose transmit and receive positions are stored samples).         *)
C28_DeltaAzWithinHalfTurn ==
    ApparentReturned =>
        \A k \in DOMAIN out.returned :
            LET d == out.returned[k].delta_az
            IN  d.a.position.val # <<>> /\ d.b.position.val # <<>> =>
                    /\ DeltaDeg(d) >= -180
                    /\ DeltaDeg(d) <= 180

----------------------------------------------------------------------------
(* cpf_utils/cpf_download.py: download_bydate, cpf_download, try_download   *)
(* A date is a record year, month, day, hms (the time of day as the number *)
(* HHMMSS).  A file of the server is a record: sat, the target its name    *)
(* begins with; date, the third '_' field of its name, as the number       *)
(* YYMMDD; mtime, the answer to MDTM, as the pair <<YYYYMMDD, HHMMSS>>.    *)
(* A remote directory is a record year, sat; the server is a function from *)
(* directories to listings, newest file first.                             *)

DaysIn(month) ==
    CASE month \in {1, 3, 5, 7, 8, 10, 12} -> 31
      [] month \in {4, 6, 9, 11} -> 30
      [] month = 2 -> 28

(* line 98, Time(date) - 7: the date seven days earlier (no 29 February    *)
(* lies in the weeks before the dates of the calls)                        *)
SevenDaysBefore(date) ==
    IF date.day > 7 THEN [date EXCEPT !.day = date.day - 7]
    ELSE IF date.month > 1
    THEN [date EXCEPT !.month = date.month - 1,
                      !.day = DaysIn(date.month - 1) + date.day - 7]
    ELSE [date EXCEPT !.year = date.year - 1, !.month = 12, !.day = 31 + date.day - 7]

(* strftime('%y%m%d') and strftime('%Y%m%d%H%M%S'), as numbers *)
Ymd6(date) == (date.year % 100) * 10000 + date.month * 100 + date.day
Ymd14(date) == <<date.year * 10000 + date.month * 100 + date.day, date.hms>>

(* a < b and a <= b of two texts YYYYMMDDHHMMSS *)
StrLess(a, b) == a[1] < b[1] \/ (a[1] = b[1] /\ a[2] < b[2])
StrLessEq(a, b) == a = b \/ StrLess(a, b)

(* list.remove(x): the list without the first entry equal to x *)
ListRemove(list, x) ==
    LET k == SetMin({i \in DOMAIN list : list[i] = x})
    IN  [i \in 1..(Len(list) - 1) |-> IF i < k THEN list[i] ELSE list[i + 1]]

(* lines 121-123, 142-144: the files of a listing dated within the week *)
Reduced(listing, date) ==
    SelectSeq(listing, LAMBDA f : /\ Ymd6(SevenDaysBefore(date)) <= f.date
                                  /\ f.date <= Ymd6(date))

(* lines 125-132: the first file of the reduced listing modified before    *)
(* the date, as a list of at most one file                                 *)
FirstBefore(listing, date) ==
    LET hits == SelectSeq(Reduced(listing, date),
                          LAMBDA f : StrLess(f.mtime, Ymd14(date)))
    IN  IF hits = <<>> THEN <<>> ELSE <<hits[1]>>

(* lines 146-151: the same with <= *)
FirstNotAfter(listing, date) ==
    LET hits == SelectSeq(Reduced(listing, date),
                          LAMBDA f : StrLessEq(f.mtime, Ymd14(date)))
    IN  IF hits = <<>> THEN <<>> ELSE <<hits[1]>>

(* lines 113-151: the loop over the targets from target k on *)
RECURSIVE BydateFrom(_, _, _, _, _, _)
BydateFrom(k, satnames, remote, date, dirs, files) ==
    IF k > Len(satnames) THEN [dirs_cpf_from |-> dirs, cpf_files |-> files]
    ELSE LET here == [year |-> date.year, sat |-> satnames[k]]
             back == [year |-> 2000 + (Ymd6(SevenDaysBefore(date)) \div 10000),
                      sat |-> satnames[k]]
             found == FirstBefore(remote[here], date)
         IN  IF found # <<>>
             THEN BydateFrom(k + 1, satnames, remote, date,
                             Append(dirs, here), files \o found)
             ELSE IF Ymd6(SevenDaysBefore(date)) \div 10000 >= 5
             THEN BydateFrom(k + 1, satnames, remote, date,
                             Append(ListRemove(Append(dirs, here), here), back),
                             files \o FirstNotAfter(remote[back], date))
             ELSE BydateFrom(k + 1, satnames, remote, date, Append(dirs, here), files)

(* download_bydate, lines 95-154, for a list of target names *)
download_bydate(remote, date, satnames) == BydateFrom(1, satnames, remote, date, <<>>, <<>>)

(* zip(dirs_cpf_from, cpf_files) *)
Zip(a, b) == [i \in 1..Min(Len(a), Len(b)) |-> <<a[i], b[i]>>]

(* lines 196-199 with try_download, lines 212-224, from pair k on: RETR of *)
(* a file that the directory does not hold fails on each of the three      *)
(* tries, the local file is removed and the exception ends the function;   *)
(* the server is taken to answer every other request                       *)
RECURSIVE FetchFrom(_, _, _, _, _)
FetchFrom(k, pairs, remote, local, done) ==
    IF k > Len(pairs) THEN [err |-> "none", local |-> local, dir_cpf_files |-> done]
    ELSE IF \E i \in DOMAIN remote[pairs[k][1]] : remote[pairs[k][1]][i] = pairs[k][2]
    THEN FetchFrom(k + 1, pairs, remote, local \cup {pairs[k][2]},
                   Append(done, pairs[k][2]))
    ELSE [err |-> "Exception", local |-> local \ {pairs[k][2]}, dir_cpf_files |-> done]

(* cpf_download with a date, lines 192-204 *)
cpf_download(remote, local, date, satnames) ==
    LET Fetched(by, got) ==
            [err |-> got.err, local |-> got.local, dir_cpf_files |-> got.dir_cpf_files,
             dirs_cpf_from |-> by.dirs_cpf_from, cpf_files |-> by.cpf_files]
        Fetch(by) ==
            Fetched(by, FetchFrom(1, Zip(by.dirs_cpf_from, by.cpf_files), remote, local, <<>>))
    IN  Fetch(download_bydate(remote, date, satnames))

----------------------------------------------------------------------------
(* The calls of cpf_download with a date *)

SatNames == {"ajisai", "lageos1", "hy2a"}

(* the dates of the calls: in the middle of a year, in the first week of a *)
(* year, and in a year before 2005                                         *)
Dates ==
    {[year |-> 2007, month |-> 6, day |-> 1, hms |-> 113000],
     [year |-> 2008, month |-> 1, day |-> 3, hms |-> 53000],
     [year |-> 2004, month |-> 6, day |-> 10, hms |-> 120000]}

Years == {2003, 2004, 2007, 2008}

(* a file dated long before any of the dates *)
OldFile(sat) == [sat |-> sat, date |-> 101, mtime |-> <<20000101, 0>>]

(* what the server holds for a target around the date: a file released a   *)
(* minute before it, exactly at it, a minute after it, a file of the week  *)
(* before in the directory of that week's year, or no file of the week     *)
Holdings == {"fresh", "edge", "late", "prior", "none"}

Listing(dir, date, holding) ==
    IF holding = "fresh" /\ dir.year = date.year
    THEN <<[sat |-> dir.sat, date |-> Ymd6(date),
            mtime |-> <<Ymd14(date)[1], date.hms - 100>>], OldFile(dir.sat)>>
    ELSE IF holding = "edge" /\ dir.year = date.year
    THEN <<[sat |-> dir.sat, date |-> Ymd6(date), mtime |-> Ymd14(date)], OldFile(dir.sat)>>
    ELSE IF holding = "late" /\ dir.year = date.year
    THEN <<[sat |-> dir.sat, date |-> Ymd6(date),
            mtime |-> <<Ymd14(date)[1], date.hms + 100>>], OldFile(dir.sat)>>
    ELSE IF holding = "prior" /\ dir.year = SevenDaysBefore(date).year
    THEN <<[sat |-> dir.sat, date |-> Ymd6(SevenDaysBefore(date)),
            mtime |-> Ymd14(SevenDaysBefore(date))], OldFile(dir.sat)>>
    ELSE <<OldFile(dir.sat)>>

(* the servers: the holdings of every target around one of the dates *)
Remotes ==
    {[dir \in [year : Years, sat : SatNames] |-> Listing(dir, date, holding[dir.sat])] :
        date \in Dates, holding \in [SatNames -> Holdings]}

(* the lists of target names asked for: up to three targets, one of them   *)
(* possibly twice                                                          *)
SatLists ==
    {<<a>> : a \in SatNames}
    \cup {<<a, b>> : a \in SatNames, b \in SatNames}
    \cup {<<"ajisai", "lageos1", "hy2a">>, <<"hy2a", "lageos1", "ajisai">>}

CpfDownload ==
    /\ call.name = "idle"
    /\ \E date \in Dates, satnames \in SatLists :
          \E r \in {cpf_download(disk.remote, disk.local, date, satnames)} :
              /\ call' = [name |-> "cpf_download", date |-> date, satnames |-> satnames]
              /\ out' = [err |-> r.err, dir_cpf_files |-> r.dir_cpf_files,
                         dirs_cpf_from |-> r.dirs_cpf_from, cpf_files |-> r.cpf_files]
              /\ disk' = [disk EXCEPT !.local = r.local]
    /\ UNCHANGED <<table, leapDay, sky, sun, info>>

InitDownload ==
    /\ table = <<>>
    /\ leapDay = -1
    /\ sky = NoSky
    /\ sun = NoSun
    /\ info = <<>>
    /\ disk \in {[remote |-> r, local |-> {}] : r \in Remotes}
    /\ call = Idle
    /\ out = Nothing

NextOfDownload == CpfDownload \/ Return

SpecDownload == InitDownload /\ [][NextOfDownload]_vars

----------------------------------------------------------------------------
(* Properties of cpf_download *)

InDownload == call.name = "cpf_download"

(* C29: in a call of cpf_download with a date, the i-th directory of       *)
(* dirs_cpf_from is a directory of the target of the i-th file of          *)
(* cpf_files and lists that file, for every i, and no download fails for   *)
(* want of the file in the directory it is asked from.                     *)
C29_FilesPairedWithTheirDirectory ==
    InDownload =>
        /\ out.err = "none"
        /\ \A i \in DOMAIN out.cpf_files :
              /\ i \in DOMAIN out.dirs_cpf_from
              /\ out.dirs_cpf_from[i].sat = out.cpf_files[i].sat
              /\ \E j \in DOMAIN disk.remote[out.dirs_cpf_from[i]] :
                    disk.remote[out.dirs_cpf_from[i]][j] = out.cpf_files[i]

----------------------------------------------------------------------------
(* utils/try_download.py: tqdm_request_http                                *)
(* The local file is a record: exists, and bytes, the chunks it holds.     *)
(* The function runs one iteration of its loop at a time; call holds the   *)
(* index idownload of the next iteration, missing_flag, the outcomes of    *)
(* the iterations made and pc, where the function stands.                  *)

(* line 47: range(5) *)
Attempts == 5

NoFile == [exists |-> FALSE, bytes |-> <<>>]

(* open in append mode in place of line 49 *)
OpenAb(file) == [exists |-> TRUE, bytes |-> file.bytes]

(* line 49, open(dir_cpf_to + cpf_file, 'wb'): the file is created or cut  *)
(* to no byte; tell() is 0 and the request asks for the bytes from 0 on    *)
OpenWb(file) == [exists |-> TRUE, bytes |-> <<>>]

(* lines 58-60: the first k chunks of the response written to the file *)
Written(file, content, k) == [file EXCEPT !.bytes = file.bytes \o SubSeq(content, 1, k)]

(* the errors of lines 64-66, which the loop catches *)
Caught == {"HTTPError", "ConnectionError", "Timeout"}

(* what can happen in an iteration: the response is read to its end; the   *)
(* status is an error (raise_for_status), the connection fails or times    *)
(* out before a byte is read; the connection fails after k chunks; the     *)
(* response has no Content-Length (int(None), line 55) or its chunked      *)
(* encoding breaks after k chunks, which the loop does not catch           *)
Outcomes(content) ==
    {[kind |-> "ok", k |-> Len(content)]}
    \cup {[kind |-> e, k |-> 0] : e \in Caught \cup {"TypeError"}}
    \cup {[kind |-> e, k |-> k] : e \in {"ConnectionError", "ChunkedEncodingError"},
                                  k \in 1..(Len(content) - 1)}

(* lines 40-46: the call begins *)
HttpRequest ==
    /\ call.name = "idle"
    /\ call' = [name |-> "tqdm_request_http", cpf_file |-> "ajisai_cpf", pc |-> "loop",
                idownload |-> 0, missing_flag |-> FALSE, made |-> <<>>]
    /\ out' = Nothing
    /\ UNCHANGED <<table, leapDay, sky, sun, info, disk>>

(* lines 47-73: one iteration of the loop *)
HttpAttempt ==
    /\ call.name = "tqdm_request_http" /\ call.pc = "loop"
    /\ \E o \in Outcomes(disk.server) :
          \E f \in {Written(OpenWb(disk.local), disk.server, o.k)} :
              /\ call' = [call EXCEPT
                            !.made = Append(@, o),
                            !.idownload = @ + 1,
                            !.missing_flag = @ \/ (o.kind \in Caught
                                                     /\ call.idownload = Attempts - 1),
                            !.pc = IF o.kind = "ok" THEN "after"
                                   ELSE IF o.kind \notin Caught THEN "raised"
                                   ELSE IF call.idownload = Attempts - 1 THEN "after"
                                   ELSE "loop"]
              /\ disk' = [disk EXCEPT
                            !.local = IF o.kind \in Caught /\ call.idownload = Attempts - 1
                                      THEN NoFile ELSE f]
    /\ UNCHANGED <<table, leapDay, sky, sun, info, out>>

(* lines 75-78: the value returned, or the exception that left the loop *)
HttpFinish ==
    /\ call.name = "tqdm_request_http" /\ call.pc \in {"after", "raised"}
    /\ call' = [call EXCEPT !.pc = "done"]
    /\ out' = [err |-> IF call.pc = "raised" THEN call.made[Len(call.made)].kind ELSE "none",
               ret |-> IF call.pc = "raised" THEN "nothing"
                       ELSE IF call.missing_flag THEN call.cpf_file ELSE "None"]
    /\ UNCHANGED <<table, leapDay, sky, sun, info, disk>>

(* the caller goes on *)
HttpReturn ==
    /\ call.name = "tqdm_request_http" /\ call.pc = "done"
    /\ call' = Idle
    /\ out' = Nothing
    /\ UNCHANGED <<table, leapDay, sky, sun, info, disk>>

(* the responses of the server, in chunks of block_size bytes, and the     *)
(* local file before the first call: none, or one of an earlier download   *)
Contents == {<<"c1">>, <<"c1", "c2">>, <<"c1", "c2", "c3">>}

InitHttp ==
    /\ table = <<>>
    /\ leapDay = -1
    /\ sky = NoSky
    /\ sun = NoSun
    /\ info = <<>>
    /\ disk \in {[server |-> c, local |-> f] :
                    c \in Contents, f \in {NoFile, [exists |-> TRUE, bytes |-> <<"c0">>]}}
    /\ call = Idle
    /\ out = Nothing

NextOfHttp == HttpRequest \/ HttpAttempt \/ HttpFinish \/ HttpReturn

SpecHttp == InitHttp /\ [][NextOfHttp]_vars

----------------------------------------------------------------------------
(* Properties of tqdm_request_http *)

InHttp == call.name = "tqdm_request_http"

(* the iterations made so far that read the response to its end *)
Succeeded == {i \in DOMAIN call.made : call.made[i].kind = "ok"}

(* C30: tqdm_request_http makes at most 5 attempts and none after one that *)
(* succeeded; it returns None exactly when an attempt succeeded, and the   *)
(* local file then holds the bytes of that attempt and no other; it        *)
(* returns the file name exactly when 5 attempts were made and each failed *)
(* with an HTTP, connection or timeout error, and the local file is then   *)
(* removed.                                                                *)
C30_FiveAttempts ==
    InHttp =>
        /\ Len(call.made) <= 5
        /\ \A i \in Succeeded : i = Len(call.made)
        /\ call.pc = "done" /\ out.err = "none" =>
              /\ out.ret = "None" <=> Succeeded # {}
              /\ out.ret = "None" => disk.local = [exists |-> TRUE, bytes |-> disk.server]
              /\ out.ret = call.cpf_file <=>
                    /\ Len(call.made) = 5
                    /\ \A i \in DOMAIN call.made : call.made[i].kind \in Caught
              /\ out.ret = call.cpf_file => disk.local = NoFile
              /\ out.ret \in {"None", call.cpf_file}

(* None is returned by the fifth attempt, after four failed ones the last  *)
(* of which had written a part of the response to the file                 *)
C30_Witness ==
    /\ InHttp /\ call.pc = "done" /\ out.ret = "None"
    /\ Len(call.made) = 5
    /\ call.made[4].kind = "ConnectionError" /\ call.made[4].k = 2
    /\ disk.server = <<"c1", "c2", "c3">>

=============================================================================
